---- MODULE Spec2Model ----
(***************************************************************************)
(* ISS-Observer: the pass scanner (lib/passes.js), the scoring helpers     *)
(* (lib/format.js) and the illumination test (lib/orbit.js).               *)
(*                                                                         *)
(* Units.  Instants are milliseconds (Date.getTime()).  Angles handed over *)
(* by satellite.js and SunCalc are radians; the model counts them in units *)
(* of pi/180 rad, so that Math.PI is the integer PI below and toDegrees is *)
(* computed as the code computes it, (radians * 180) / Math.PI.  Vectors   *)
(* are triples of integers; satellite positions are km, and the Sun vector *)
(* is given in a scaled unit (isSatSunlit depends only on its direction).  *)
(***************************************************************************)
EXTENDS Integers, Sequences, FiniteSets, TLC

VARIABLES
  pc,            \* "loop" while computePasses is in its for loop, "done" after return
  time,          \* the loop variable `time` (ms)
  endTime,       \* const endTime
  currentPass,   \* let currentPass: NULL or Some(pass under construction)
  maxElevation,  \* let maxElevation
  peakData,      \* let peakData: NULL or Some([time, az])
  passes,        \* const passes = []
  env,           \* what propagate / ecfToLookAngles / SunCalc answered at each visited instant
  domain,        \* which answers the collaborators may give in this scan
  earlier,       \* the invocations of computePasses that have returned: their answers and results
  call,          \* a call of one of the exported functions: its arguments and its result
  now,           \* Date.now() (ms)
  storage,       \* window.localStorage
  requests,      \* how many requests for TLE_URL have gone to the network
  app,           \* main.js: `state`, loopId, and where init is
  sw,            \* sw.js: the Cache named CACHE_NAME and what the worker has answered
  map            \* main.js: lastTrackUpdate, cachedTrack, cachedFutureTrack and the two track lines

vars == <<pc, time, endTime, currentPass, maxElevation, peakData, passes, env, domain,
         earlier, call, now, storage, requests, app, sw, map>>

\* the variables of the page and of the service worker
appVars == <<now, storage, requests, app, sw, map>>

----------------------------------------------------------------------------
(* Bounds of the model *)

\* the scan window, counted in steps (the code's window is 72 h = 12960 steps)
WindowSteps == 4
\* the longer window used with the elevation-only inputs
WindowStepsLong == 6
\* the start instant handed to computePasses (ms)
StartMs == 0
\* the window used when computePasses is invoked repeatedly
WindowStepsShort == 1
\* how many times computePasses is invoked
MaxInvocations == 3
\* the longest ground track handed to segmentTrack
MaxTrackLen == 3

----------------------------------------------------------------------------
(* Program constants *)

STEP_SECONDS == 20
PASS_WINDOW_HOURS == 72
INITIAL_MAX_ELEVATION == -90
EARTH_RADIUS_KM == 6371
PI == 180
DARK_LIMIT_DEG == -6

StepMs == STEP_SECONDS * 1000

----------------------------------------------------------------------------
(* null and non-null values of a JavaScript binding *)

NULL == <<>>
Some(x) == <<x>>
Val(o) == o[1]

Last(s) == s[Len(s)]

\* no page is open and no worker is installed
AppIdle ==
  /\ now = 0
  /\ storage = NULL
  /\ requests = 0
  /\ app = NULL
  /\ sw = NULL
  /\ map = NULL

\* JavaScript's % : the remainder takes the sign of the dividend
JsRem(a, b) == IF a >= 0 THEN a % b ELSE -((-a) % b)

toDegrees(radians) == (radians * 180) \div PI

----------------------------------------------------------------------------
(* lib/orbit.js: cylindrical shadow test *)

Dot(a, b) == a[1] * b[1] + a[2] * b[2] + a[3] * b[3]

\* faulty variants of isSatSunlit: the early return for the sunward side left
\* out; a perpendicular distance of exactly the Earth radius taken as sunlit
isSatSunlitNoSunwardSide(positionEci, sunEci) ==
  LET dot == Dot(positionEci, sunEci)
      sunMagSq == Dot(sunEci, sunEci)
  IN Dot(positionEci, positionEci) * sunMagSq - dot * dot
       > EARTH_RADIUS_KM * EARTH_RADIUS_KM * sunMagSq

isSatSunlitInclusive(positionEci, sunEci) ==
  LET dot == Dot(positionEci, sunEci)
      sunMagSq == Dot(sunEci, sunEci)
  IN IF dot > 0
       THEN TRUE
       ELSE Dot(positionEci, positionEci) * sunMagSq - dot * dot
              >= EARTH_RADIUS_KM * EARTH_RADIUS_KM * sunMagSq

\* perpDist > EARTH_RADIUS_KM, with perpDist^2 = |sat|^2 - (sat . sunUnit)^2;
\* both sides are squared and multiplied by |sun|^2 to stay in the integers.
isSatSunlit(positionEci, sunEci) ==
  LET dot == Dot(positionEci, sunEci)
      sunMagSq == Dot(sunEci, sunEci)
  IN IF dot > 0
       THEN TRUE
       ELSE Dot(positionEci, positionEci) * sunMagSq - dot * dot
              > EARTH_RADIUS_KM * EARTH_RADIUS_KM * sunMagSq

----------------------------------------------------------------------------
(* lib/format.js: scoring *)

Min(a, b) == IF a <= b THEN a ELSE b
Max(a, b) == IF a >= b THEN a ELSE b

\* 12 * clamp((-sunAltitudeDeg - 6) / 12, 0, 1)
DarknessTwelfths(sunAltitudeDeg) == Min(Max(-sunAltitudeDeg - 6, 0), 12)

\* faulty variants of scorePass: no lower clamp of the darkness term; the sign of
\* the sun altitude lost; Math.floor in place of Math.round
scorePassNoFloor(maxEl, durationSeconds, sunAltitudeDeg) ==
  LET n == 100 * Min(maxEl, 90) + 9 * Min(durationSeconds, 600)
             + 300 * Min(-sunAltitudeDeg - 6, 12)
  IN (2 * n + 180) \div 360

scorePassBrighterIsBetter(maxEl, durationSeconds, sunAltitudeDeg) ==
  LET n == 100 * Min(maxEl, 90) + 9 * Min(durationSeconds, 600)
             + 300 * Min(Max(sunAltitudeDeg - 6, 0), 12)
  IN (2 * n + 180) \div 360

scorePassFloored(maxEl, durationSeconds, sunAltitudeDeg) ==
  LET n == 100 * Min(maxEl, 90) + 9 * Min(durationSeconds, 600)
             + 300 * DarknessTwelfths(sunAltitudeDeg)
  IN n \div 180

\* Math.round(x) = floor(x + 1/2); the sum is n/180 with
\* n = 100*min(el,90) + 9*min(d,600) + 300*DarknessTwelfths
scorePass(maxEl, durationSeconds, sunAltitudeDeg) ==
  LET n == 100 * Min(maxEl, 90) + 9 * Min(durationSeconds, 600)
             + 300 * DarknessTwelfths(sunAltitudeDeg)
  IN (2 * n + 180) \div 360

estimateBrightnessInclusive(maxEl, sunAltitudeDeg) ==
  LET score10 == 7 * maxEl + 25 * DarknessTwelfths(sunAltitudeDeg)
  IN IF score10 >= 700 THEN "Very bright"
     ELSE IF score10 >= 500 THEN "Bright"
     ELSE IF score10 >= 300 THEN "Moderate"
     ELSE "Dim"

\* score = maxElevation * 0.7 + darkness * 30, compared times 10
estimateBrightness(maxEl, sunAltitudeDeg) ==
  LET score10 == 7 * maxEl + 25 * DarknessTwelfths(sunAltitudeDeg)
  IN IF score10 > 700 THEN "Very bright"
     ELSE IF score10 > 500 THEN "Bright"
     ELSE IF score10 > 300 THEN "Moderate"
     ELSE "Dim"

----------------------------------------------------------------------------
(* The collaborators' answers at one instant *)

\* propagate returned no position
Gap == [avail |-> FALSE, el |-> 0, az |-> 0, pos |-> <<0, 0, 0>>,
        sun |-> <<1, 0, 0>>, alt |-> 0]

\* el, az: ecfToLookAngles (radian units); pos: propagate; sun: computeSunEci(date);
\* alt: SunCalc.getPosition(date, lat, lon).altitude (radian units)
Smp(el, az, pos, alt) ==
  [avail |-> TRUE, el |-> el, az |-> az, pos |-> pos, sun |-> <<1, 0, 0>>, alt |-> alt]

PosSunSide == <<7000, 0, 0>>
PosShadow == <<-7000, 0, 0>>

\* elevation only: one azimuth, satellite always lit, sky always dark
ElevationDomain ==
  {Gap} \cup {Smp(el, 45, PosSunSide, -18) : el \in {-5, -1, 0, 10, 45}}

\* elevation and azimuth
AzimuthDomain ==
  {Gap} \cup {Smp(el, az, PosSunSide, -18) : el \in {-1, 10, 45}, az \in {45, 200}}

\* elevation sign, illumination and sky darkness
VisibilityDomain ==
  {Gap} \cup {Smp(el, 45, pos, alt) :
                el \in {-1, 10}, pos \in {PosSunSide, PosShadow}, alt \in {-18, -6}}

\* a small set of answers for repeated invocations
RepeatDomain ==
  {Gap} \cup {Smp(el, 45, PosSunSide, -18) : el \in {-1, 10}}

\* low and high passes under a dark and under a daylight sky
ScoringDomain ==
  {Gap} \cup {Smp(el, 45, PosSunSide, alt) : el \in {-1, 10, 80}, alt \in {-18, 10}}

\* the whole range of ecfToLookAngles: elevation from -pi/2 to pi/2, azimuth
\* (atan2 + pi) from 0 to 2 pi, both ends included
LookAngleDomain ==
  {Gap} \cup {Smp(el, az, PosSunSide, -18) : el \in {-90, 10, 90}, az \in {0, 359, 360}}

Answers(d) ==
  CASE d = "elevation" -> ElevationDomain
    [] d = "lookangles" -> LookAngleDomain
    [] d = "scoring" -> ScoringDomain
    [] d = "repeat" -> RepeatDomain
    [] d = "azimuth" -> AzimuthDomain
    [] d = "visibility" -> VisibilityDomain

\* the sample taken at instant t, e being the answers given so far
SampleAt(e, t) == e[((t - StartMs) \div StepMs) + 1]

----------------------------------------------------------------------------
(* lib/passes.js *)

isObserverDark(s) ==
  LET sunAltitude == toDegrees(s.alt)
  IN [dark |-> sunAltitude < DARK_LIMIT_DEG, altitude |-> sunAltitude]

\* faulty variant: the sun altitude is taken at the start of the pass
buildPassSunAtStart(pass, e) ==
  LET duration == (Val(pass.end) - pass.start) \div 1000
      darkAtStart == isObserverDark(SampleAt(e, pass.start)).altitude
  IN [start |-> pass.start, startAz |-> pass.startAz,
      maxElevation |-> pass.maxElevation,
      peakTime |-> pass.peakTime, peakAz |-> pass.peakAz,
      end |-> pass.end, endAz |-> pass.endAz,
      visible |-> pass.visible, visibleSegments |-> pass.visibleSegments,
      duration |-> duration,
      score |-> scorePass(pass.maxElevation, duration, darkAtStart),
      brightness |-> estimateBrightness(pass.maxElevation, darkAtStart)]

\* pass.end and pass.peakTime are set by the caller before buildPass is called
buildPass(pass, e) ==
  LET duration == (Val(pass.end) - pass.start) \div 1000
      darkAtPeak == isObserverDark(SampleAt(e, pass.peakTime)).altitude
  IN [start |-> pass.start, startAz |-> pass.startAz,
      maxElevation |-> pass.maxElevation,
      peakTime |-> pass.peakTime, peakAz |-> pass.peakAz,
      end |-> pass.end, endAz |-> pass.endAz,
      visible |-> pass.visible, visibleSegments |-> pass.visibleSegments,
      duration |-> duration,
      score |-> scorePass(pass.maxElevation, duration, darkAtPeak),
      brightness |-> estimateBrightness(pass.maxElevation, darkAtPeak)]

\* faulty variant: the azimuth converted to degrees and not reduced modulo 360
normalizeAzimuthNoWrap(azimuthRad) == toDegrees(azimuthRad)

\* line 61
normalizeAzimuth(azimuthRad) == JsRem(toDegrees(azimuthRad) + 360, 360)

\* line 63: a pass is opened
OpensPassAtZero(elevationDeg, cp) == elevationDeg >= 0 /\ cp = NULL

OpensPass(elevationDeg, cp) == elevationDeg > 0 /\ cp = NULL

\* line 80: a new peak
IsNewPeak(elevationDeg, mx) == elevationDeg > mx

\* line 100: the open pass ends
EndsPassBelowZero(elevationDeg) == elevationDeg < 0

EndsPass(elevationDeg) == elevationDeg <= 0

\* lines 63-77: the pass object created when the elevation is above 0 and none is open
NewPassAtScanStart(t, elevationDeg, azimuthDeg) ==
  [start |-> StartMs, startAz |-> azimuthDeg, maxElevation |-> elevationDeg,
   peakTime |-> t, peakAz |-> azimuthDeg, end |-> NULL, endAz |-> NULL,
   visible |-> FALSE, visibleSegments |-> <<>>]

NewPass(t, elevationDeg, azimuthDeg) ==
  [start |-> t, startAz |-> azimuthDeg, maxElevation |-> elevationDeg,
   peakTime |-> t, peakAz |-> azimuthDeg, end |-> NULL, endAz |-> NULL,
   visible |-> FALSE, visibleSegments |-> <<>>]

\* lines 85-98: the visibility bookkeeping of the open pass at instant t
UpdateVisibilityAlwaysPush(pass, t, sunlit, dark) ==
  LET segs == pass.visibleSegments
  IN IF sunlit /\ dark
       THEN [pass EXCEPT
               !.visible = TRUE,
               !.visibleSegments = Append(segs, [start |-> t, end |-> NULL])]
       ELSE IF segs # <<>> /\ Last(segs).end = NULL
         THEN [pass EXCEPT !.visibleSegments[Len(segs)].end = Some(t)]
         ELSE pass

UpdateVisibilityFlagOnOpen(pass, t, sunlit, dark) ==
  LET segs == pass.visibleSegments
  IN IF sunlit /\ dark
       THEN [pass EXCEPT
               !.visible = (t # pass.start),
               !.visibleSegments =
                  IF segs = <<>> \/ Last(segs).end # NULL
                    THEN Append(segs, [start |-> t, end |-> NULL])
                    ELSE segs]
       ELSE IF segs # <<>> /\ Last(segs).end = NULL
         THEN [pass EXCEPT !.visibleSegments[Len(segs)].end = Some(t)]
         ELSE pass

\* faulty variant: a segment is pushed only after a closed one, never the first
UpdateVisibilityNoFirstSegment(pass, t, sunlit, dark) ==
  LET segs == pass.visibleSegments
  IN IF sunlit /\ dark
       THEN [pass EXCEPT
               !.visible = TRUE,
               !.visibleSegments =
                  IF segs # <<>> /\ Last(segs).end # NULL
                    THEN Append(segs, [start |-> t, end |-> NULL])
                    ELSE segs]
       ELSE IF segs # <<>> /\ Last(segs).end = NULL
         THEN [pass EXCEPT !.visibleSegments[Len(segs)].end = Some(t)]
         ELSE pass

UpdateVisibility(pass, t, sunlit, dark) ==
  LET segs == pass.visibleSegments
  IN IF sunlit /\ dark
       THEN [pass EXCEPT
               !.visible = TRUE,
               !.visibleSegments =
                  IF segs = <<>> \/ Last(segs).end # NULL
                    THEN Append(segs, [start |-> t, end |-> NULL])
                    ELSE segs]
       ELSE IF segs # <<>> /\ Last(segs).end = NULL
         THEN [pass EXCEPT !.visibleSegments[Len(segs)].end = Some(t)]
         ELSE pass

\* lines 100-106: the pass closed by a sample at or below the horizon
ClosePassStaleMax(pass, t, azimuthDeg, mx, pk, e) ==
  buildPass([pass EXCEPT !.end = Some(t), !.endAz = Some(azimuthDeg),
                         !.peakTime = Val(pk).time, !.peakAz = Val(pk).az], e)

\* faulty variant: the pass is extended to the step after its closing sample
ClosePassAtNextStep(pass, t, azimuthDeg, mx, pk, e) ==
  buildPass([pass EXCEPT !.end = Some(t + StepMs), !.endAz = Some(azimuthDeg),
                         !.maxElevation = mx,
                         !.peakTime = Val(pk).time, !.peakAz = Val(pk).az], e)

ClosePass(pass, t, azimuthDeg, mx, pk, e) ==
  buildPass([pass EXCEPT !.end = Some(t), !.endAz = Some(azimuthDeg),
                         !.maxElevation = mx,
                         !.peakTime = Val(pk).time, !.peakAz = Val(pk).az], e)

\* lines 114-121: the pass still open when the loop ends
FinalizePassAtLastStep(pass, mx, pk, e) ==
  buildPass([pass EXCEPT
               !.end = Some(endTime - StepMs),
               !.endAz = IF pass.endAz # NULL THEN pass.endAz ELSE Some(pass.startAz),
               !.maxElevation = mx,
               !.peakTime = IF pk # NULL THEN Val(pk).time ELSE pass.start,
               !.peakAz = IF pk # NULL THEN Val(pk).az ELSE pass.startAz], e)

FinalizePass(pass, mx, pk, e) ==
  buildPass([pass EXCEPT
               !.end = Some(endTime),
               !.endAz = IF pass.endAz # NULL THEN pass.endAz ELSE Some(pass.startAz),
               !.maxElevation = mx,
               !.peakTime = IF pk # NULL THEN Val(pk).time ELSE pass.start,
               !.peakAz = IF pk # NULL THEN Val(pk).az ELSE pass.startAz], e)

\* Math.round((segment.end - segment.start) / 60000)
RoundedMinutes(ms) == (2 * ms + 60000) \div 120000

\* lines 126-139
describeVisibilityUnrounded(pass) ==
  IF ~pass.visible THEN "Not visible (daylight or shadowed)"
  ELSE IF pass.visibleSegments = <<>> THEN "Visible briefly"
  ELSE LET segment == pass.visibleSegments[1]
       IN IF segment.end # NULL /\ Val(segment.end) - segment.start >= 4 * 60000
            THEN "Visible for most of pass"
            ELSE "Visible in part of pass"

describeVisibility(pass) ==
  IF ~pass.visible THEN "Not visible (daylight or shadowed)"
  ELSE IF pass.visibleSegments = <<>> THEN "Visible briefly"
  ELSE LET segment == pass.visibleSegments[1]
       IN IF segment.end # NULL /\ RoundedMinutes(Val(segment.end) - segment.start) >= 4
            THEN "Visible for most of pass"
            ELSE "Visible in part of pass"

----------------------------------------------------------------------------
(* computePasses as a state machine: one action per loop iteration *)

\* no pure function is being called
NoCall == [fn |-> "none", args |-> <<>>, result |-> NULL]

InitWith(d, steps) ==
  /\ pc = "loop"
  /\ time = StartMs
  /\ endTime = StartMs + steps * StepMs
  /\ currentPass = NULL
  /\ maxElevation = INITIAL_MAX_ELEVATION
  /\ peakData = NULL
  /\ passes = <<>>
  /\ env = <<>>
  /\ domain = d
  /\ earlier = <<>>
  /\ call = NoCall
  /\ AppIdle

\* lines 54-57: no position, `continue`
LoopSkipClosesPass ==
  /\ pc = "loop"
  /\ time <= endTime
  /\ \E s \in Answers(domain) :
       /\ ~s.avail
       /\ env' = Append(env, s)
  /\ time' = time + StepMs
  /\ currentPass' = NULL
  /\ UNCHANGED <<pc, endTime, maxElevation, peakData, passes, domain, earlier, call, appVars>>

LoopSkip ==
  /\ pc = "loop"
  /\ time <= endTime
  /\ \E s \in Answers(domain) :
       /\ ~s.avail
       /\ env' = Append(env, s)
  /\ time' = time + StepMs
  /\ UNCHANGED <<pc, endTime, currentPass, maxElevation, peakData, passes, domain, earlier, call, appVars>>

\* lines 58-111: the loop body for an instant with a position
LoopSample ==
  /\ pc = "loop"
  /\ time <= endTime
  /\ \E s \in Answers(domain) :
       /\ s.avail
       /\ env' = Append(env, s)
       /\ LET elevationDeg == toDegrees(s.el)
              azimuthDeg == normalizeAzimuth(s.az)
              opening == OpensPass(elevationDeg, currentPass)
              cp1 == IF opening
                       THEN Some(NewPass(time, elevationDeg, azimuthDeg))
                       ELSE currentPass
              mx1 == IF opening THEN elevationDeg ELSE maxElevation
              pk1 == IF opening
                       THEN Some([time |-> time, az |-> azimuthDeg])
                       ELSE peakData
          IN IF cp1 = NULL
               THEN UNCHANGED <<currentPass, maxElevation, peakData, passes>>
               ELSE
                 LET higher == IsNewPeak(elevationDeg, mx1)
                     mx2 == IF higher THEN elevationDeg ELSE mx1
                     pk2 == IF higher
                              THEN Some([time |-> time, az |-> azimuthDeg])
                              ELSE pk1
                     sunlit == isSatSunlit(s.pos, s.sun)
                     dark == isObserverDark(s).dark
                     cp2 == UpdateVisibility(Val(cp1), time, sunlit, dark)
                 IN IF EndsPass(elevationDeg)
                      THEN /\ passes' = Append(passes,
                                 ClosePass(cp2, time, azimuthDeg, mx2, pk2, Append(env, s)))
                           /\ currentPass' = NULL
                           /\ maxElevation' = INITIAL_MAX_ELEVATION
                           /\ peakData' = NULL
                      ELSE /\ currentPass' = Some(cp2)
                           /\ maxElevation' = mx2
                           /\ peakData' = pk2
                           /\ UNCHANGED passes
  /\ time' = time + StepMs
  /\ UNCHANGED <<pc, endTime, domain, earlier, call, appVars>>

\* lines 112-123: the loop condition fails; finalize an open pass and return
LoopExitDropsOpenPass ==
  /\ pc = "loop"
  /\ time > endTime
  /\ pc' = "done"
  /\ UNCHANGED <<time, endTime, currentPass, maxElevation, peakData, passes, env, domain,
               earlier, call, appVars>>

\* faulty variant: the window end is not sampled (loop condition time < endTime)
LoopExitBeforeWindowEnd ==
  /\ pc = "loop"
  /\ time >= endTime
  /\ passes' = IF currentPass # NULL
                 THEN Append(passes, FinalizePass(Val(currentPass), maxElevation, peakData, env))
                 ELSE passes
  /\ pc' = "done"
  /\ UNCHANGED <<time, endTime, currentPass, maxElevation, peakData, env, domain, earlier, call, appVars>>

LoopExit ==
  /\ pc = "loop"
  /\ time > endTime
  /\ passes' = IF currentPass # NULL
                 THEN Append(passes, FinalizePass(Val(currentPass), maxElevation, peakData, env))
                 ELSE passes
  /\ pc' = "done"
  /\ UNCHANGED <<time, endTime, currentPass, maxElevation, peakData, env, domain, earlier, call, appVars>>

Next == LoopSkip \/ LoopSample \/ LoopExit

\* elevation-only inputs over the long window
Init == InitWith("elevation", WindowStepsLong)
Spec == Init /\ [][Next]_vars

\* elevation and azimuth inputs
InitAz == InitWith("azimuth", WindowSteps)
SpecAz == InitAz /\ [][Next]_vars

\* the loop is synchronous code: once computePasses is called, each iteration
\* and the statements after the loop are executed
FairAz == SpecAz /\ WF_vars(Next)

\* illumination and darkness inputs
InitVis == InitWith("visibility", WindowSteps)
SpecVis == InitVis /\ [][Next]_vars

\* elevation and sun altitude inputs, for the scores
InitScoring == InitWith("scoring", WindowSteps)
SpecScoring == InitScoring /\ [][Next]_vars

\* look angles over the whole range of the transform
InitLook == InitWith("lookangles", WindowSteps)
SpecLook == InitLook /\ [][Next]_vars

\* lines 41-47: computePasses is called again (same observer, same start); every
\* binding of the scan is a local of the call, created anew
ReinvokeKeepsPasses ==
  /\ pc = "done"
  /\ Len(earlier) + 1 < MaxInvocations
  /\ earlier' = Append(earlier, [env |-> env, passes |-> passes])
  /\ pc' = "loop"
  /\ time' = StartMs
  /\ currentPass' = NULL
  /\ maxElevation' = INITIAL_MAX_ELEVATION
  /\ peakData' = NULL
  /\ env' = <<>>
  /\ UNCHANGED <<endTime, domain, call, passes, appVars>>

Reinvoke ==
  /\ pc = "done"
  /\ Len(earlier) + 1 < MaxInvocations
  /\ earlier' = Append(earlier, [env |-> env, passes |-> passes])
  /\ pc' = "loop"
  /\ time' = StartMs
  /\ passes' = <<>>
  /\ currentPass' = NULL
  /\ maxElevation' = INITIAL_MAX_ELEVATION
  /\ peakData' = NULL
  /\ env' = <<>>
  /\ UNCHANGED <<endTime, domain, call, appVars>>

NextRepeat == LoopSkip \/ LoopSample \/ LoopExit \/ Reinvoke

\* repeated invocations over a short window
InitRepeat == InitWith("repeat", WindowStepsShort)
SpecRepeat == InitRepeat /\ [][NextRepeat]_vars

----------------------------------------------------------------------------
(* The exported pure functions, each called once on arguments drawn from a *)
(* small set; computePasses is not running.                                *)

PureInit(c) ==
  /\ pc = "idle"
  /\ time = StartMs
  /\ endTime = StartMs
  /\ currentPass = NULL
  /\ maxElevation = INITIAL_MAX_ELEVATION
  /\ peakData = NULL
  /\ passes = <<>>
  /\ env = <<>>
  /\ domain = "none"
  /\ earlier = <<>>
  /\ call = c
  /\ AppIdle

scanVars == <<pc, time, endTime, currentPass, maxElevation, peakData, passes, env, domain,
              earlier>>

Call(fn, args) == [fn |-> fn, args |-> args, result |-> NULL]

ScoreElevations == {-90, -10, 0, 20, 45, 80, 89, 90, 100}
ScoreDurations == {-600, 0, 200, 400, 599, 600, 900}
ScoreSunAltitudes == {-30, -18, -17, -12, -7, -6, -2, 10}

BrightnessElevations == {-10, 0, 1, 40, 50, 57, 58, 80, 100}
BrightnessSunAltitudes == {-30, -18, -12, -6, -2}

\* segment lengths in ms around the 4-minute threshold
SegmentLengths == {100000, 180000, 200000, 209999, 210000, 220000, 239999, 240000, 300000}

SegmentLists ==
  {<<>>, <<[start |-> 40000, end |-> NULL]>>}
    \cup {<<[start |-> 40000, end |-> Some(40000 + d)]>> : d \in SegmentLengths}
    \cup {<<[start |-> 0, end |-> Some(d)], [start |-> 400000, end |-> Some(400000 + e)]>> :
            d \in {100000, 300000}, e \in {100000, 300000}}
    \cup {<<[start |-> 0, end |-> Some(d)], [start |-> 400000, end |-> NULL]>> :
            d \in {100000, 300000}}

FormatCalls ==
  {Call("scorePass", <<el, d, alt>>) :
     el \in ScoreElevations, d \in ScoreDurations, alt \in ScoreSunAltitudes}
    \cup {Call("estimateBrightness", <<el, alt>>) :
            el \in BrightnessElevations, alt \in BrightnessSunAltitudes}
    \cup {Call("describeVisibility", <<[visible |-> v, visibleSegments |-> segs]>>) :
            v \in BOOLEAN, segs \in SegmentLists}

CallScorePass ==
  /\ call.fn = "scorePass"
  /\ call.result = NULL
  /\ call' = [call EXCEPT
                !.result = Some(scorePass(call.args[1], call.args[2], call.args[3]))]
  /\ UNCHANGED <<scanVars, appVars>>

CallEstimateBrightness ==
  /\ call.fn = "estimateBrightness"
  /\ call.result = NULL
  /\ call' = [call EXCEPT !.result = Some(estimateBrightness(call.args[1], call.args[2]))]
  /\ UNCHANGED <<scanVars, appVars>>

CallDescribeVisibility ==
  /\ call.fn = "describeVisibility"
  /\ call.result = NULL
  /\ call' = [call EXCEPT !.result = Some(describeVisibility(call.args[1]))]
  /\ UNCHANGED <<scanVars, appVars>>

InitFormat == \E c \in FormatCalls : PureInit(c)
NextFormat == CallScorePass \/ CallEstimateBrightness \/ CallDescribeVisibility
SpecFormat == InitFormat /\ [][NextFormat]_vars

----------------------------------------------------------------------------
(* lib/format.js: compass labels.  An azimuth is given in quarter degrees  *)
(* (90 stands for 22.5 degrees), so that every sector boundary is an       *)
(* integer; the quotients of such values by 22.5 are computed exactly in   *)
(* doubles wherever they are halves.                                       *)

compassPoints ==
  <<"N", "NNE", "NE", "ENE", "E", "ESE", "SE", "SSE",
    "S", "SSW", "SW", "WSW", "W", "WNW", "NW", "NNW">>

\* faulty variant: Math.floor in place of Math.round
azimuthToCompassFloored(azimuthQ) ==
  LET index == (azimuthQ \div 90) % 16
  IN compassPoints[index + 1]

\* Math.round(azimuthDeg / 22.5) % 16, Math.round(x) being floor(x + 1/2)
azimuthToCompass(azimuthQ) ==
  LET index == ((2 * azimuthQ + 90) \div 180) % 16
  IN compassPoints[index + 1]

\* azimuthDeg.toFixed(0): the nearest integer, the larger one at a tie
ToFixed0(azimuthQ) == (2 * azimuthQ + 4) \div 8

\* the string `${compass} ${degrees}°`, kept as its two parts
formatAzimuth(azimuthQ) ==
  [compass |-> azimuthToCompass(azimuthQ), degrees |-> ToFixed0(azimuthQ)]

\* every quarter degree of [0, 360)
CompassAzimuths == 0..1439

CallFormatAzimuth ==
  /\ call.fn = "formatAzimuth"
  /\ call.result = NULL
  /\ call' = [call EXCEPT !.result = Some(formatAzimuth(call.args[1]))]
  /\ UNCHANGED <<scanVars, appVars>>

InitCompass == \E azimuthQ \in CompassAzimuths : PureInit(Call("formatAzimuth", <<azimuthQ>>))
NextCompass == CallFormatAzimuth
SpecCompass == InitCompass /\ [][NextCompass]_vars

----------------------------------------------------------------------------
(* main.js: segmentTrack *)

Abs(x) == IF x >= 0 THEN x ELSE -x

\* [p.lat, p.lon]
LatLon(p) == <<p.lat, p.lon>>

\* faulty variant: a difference of exactly 180 degrees counts as a crossing
IsJumpInclusive(points, i) == Abs(points[i].lon - points[i - 1].lon) >= 180

\* line 134: antimeridian crossing between points i - 1 and i
IsJump(points, i) == Abs(points[i].lon - points[i - 1].lon) > 180

\* faulty variant: the point after the jump is not pushed into the new segment
RECURSIVE SegmentLoopDropsJumpPoint(_, _, _, _)
SegmentLoopDropsJumpPoint(points, i, segments, segment) ==
  IF i > Len(points)
    THEN IF segment # <<>> THEN Append(segments, segment) ELSE segments
    ELSE IF IsJump(points, i)
      THEN SegmentLoopDropsJumpPoint(points, i + 1, Append(segments, segment), <<>>)
      ELSE SegmentLoopDropsJumpPoint(points, i + 1, segments,
                                     Append(segment, LatLon(points[i])))

segmentTrackDropsJumpPoint(points) ==
  IF Len(points) < 2
    THEN <<[i \in 1..Len(points) |-> LatLon(points[i])]>>
    ELSE SegmentLoopDropsJumpPoint(points, 2, <<>>, <<LatLon(points[1])>>)

\* lines 131-141: the for loop from index i on, and the final push
RECURSIVE SegmentLoop(_, _, _, _)
SegmentLoop(points, i, segments, segment) ==
  IF i > Len(points)
    THEN IF segment # <<>> THEN Append(segments, segment) ELSE segments
    ELSE IF IsJump(points, i)
      THEN SegmentLoop(points, i + 1, Append(segments, segment), <<LatLon(points[i])>>)
      ELSE SegmentLoop(points, i + 1, segments, Append(segment, LatLon(points[i])))

\* lines 127-143
segmentTrack(points) ==
  IF Len(points) < 2
    THEN <<[i \in 1..Len(points) |-> LatLon(points[i])]>>
    ELSE SegmentLoop(points, 2, <<>>, <<LatLon(points[1])>>)

TrackPoints == {[lat |-> lat, lon |-> lon] : lat \in {0, 51}, lon \in {-170, -90, 90, 170}}

Tracks == UNION {[1..n -> TrackPoints] : n \in 0..MaxTrackLen}

CallSegmentTrack ==
  /\ call.fn = "segmentTrack"
  /\ call.result = NULL
  /\ call' = [call EXCEPT !.result = Some(segmentTrack(call.args[1]))]
  /\ UNCHANGED <<scanVars, appVars>>

InitTrack == \E points \in Tracks : PureInit(Call("segmentTrack", <<points>>))
NextTrack == CallSegmentTrack
SpecTrack == InitTrack /\ [][NextTrack]_vars

----------------------------------------------------------------------------
(* lib/orbit.js: isSatSunlit called on its own *)

\* satellite positions (km): inside the Earth, at the Earth radius, in orbit
SunlitPositions ==
  {<<x, y, z>> : x \in {-7000, -100, 0, 100, 7000},
                 y \in {-6372, -6371, 0, 3000, 6371, 6372},
                 z \in {0, 3000}}
    \cup {<<0, 0, 6371>>, <<0, 0, 6372>>, <<0, 0, -6371>>}

\* directions towards the Sun, of lengths 1, 2 and 3
SunVectors == {<<1, 0, 0>>, <<-1, 0, 0>>, <<0, 2, 0>>, <<0, 0, -2>>, <<1, 2, 2>>}

CallIsSatSunlit ==
  /\ call.fn = "isSatSunlit"
  /\ call.result = NULL
  /\ call' = [call EXCEPT !.result = Some(isSatSunlit(call.args[1], call.args[2]))]
  /\ UNCHANGED <<scanVars, appVars>>

InitSunlit ==
  \E pos \in SunlitPositions, sun \in SunVectors : PureInit(Call("isSatSunlit", <<pos, sun>>))
NextSunlit == CallIsSatSunlit
SpecSunlit == InitSunlit /\ [][NextSunlit]_vars

----------------------------------------------------------------------------
(* The page: lib/orbit.js fetchTle and main.js init.  Coordinates are in   *)
(* units of 0.0001 degree, instants in ms.                                 *)

CACHE_TTL_MS == 12 * 60 * 60 * 1000
RETRIES == 3
RETRY_DELAY_MS == 2000
FETCH_TIMEOUT_MS == 15000

\* how many times the page is loaded
MaxLoads == 2

TleA == <<"ISS (ZARYA)", "1 25544U A", "2 25544 A">>
TleB == <<"ISS (ZARYA)", "1 25544U B", "2 25544 B">>

\* what comes back for the request of TLE_URL: fetch rejects (network error, or
\* abort after 15 s), or a response whose body, trimmed and split at "\n", is `lines`
TleAnswers(d) ==
  IF d \in {"location", "loop"}
    THEN {[rejected |-> TRUE, ok |-> FALSE, lines |-> <<>>],
          [rejected |-> FALSE, ok |-> TRUE, lines |-> TleA]}
    ELSE {[rejected |-> TRUE, ok |-> FALSE, lines |-> <<>>],
          [rejected |-> FALSE, ok |-> FALSE, lines |-> TleA],
          [rejected |-> FALSE, ok |-> TRUE, lines |-> <<"ISS (ZARYA)", "1 25544U A">>],
          [rejected |-> FALSE, ok |-> TRUE, lines |-> TleA],
          [rejected |-> FALSE, ok |-> TRUE, lines |-> TleB \o <<"STARLINK-1007">>]}

\* lines.slice(0, n)
Slice(lines, n) == SubSeq(lines, 1, Min(Len(lines), n))

\* the outcome of an async function: its promise is fulfilled or rejected
Returns(value) == [thrown |-> FALSE, value |-> value]
Throws(message) == [thrown |-> TRUE, value |-> <<message>>]

\* faulty variant: an entry of exactly the cache lifetime is still served
CacheHitInclusive(cached, t) ==
  /\ cached # NULL
  /\ t - Val(cached).timestamp <= CACHE_TTL_MS
  /\ Len(Val(cached).tle) = 3

\* orbit.js lines 19-26: the cached entry is served
CacheHit(cached, t) ==
  /\ cached # NULL
  /\ t - Val(cached).timestamp < CACHE_TTL_MS
  /\ Len(Val(cached).tle) = 3

\* localStorage.getItem(CACHE_KEY), JSON.parse included; a throw is caught (line 27)
ReadTleCache == IF storage.available THEN storage.tle ELSE NULL

\* orbit.js lines 47-54: localStorage.setItem(CACHE_KEY, ...); a throw is caught
WriteTleCache(tle) ==
  IF storage.available
    THEN [storage EXCEPT !.tle = Some([tle |-> tle, timestamp |-> now])]
    ELSE storage

\* the interval timer `id`
TimerOf(a, id) == {timer \in a.timers : timer.id = id}

\* faulty variant: the running timer is not cleared
startLoopNoClear(a) ==
  LET id == a.nextTimer
  IN [a EXCEPT !.timers = a.timers \cup {[id |-> id, period |-> a.updateRate]},
               !.loopId = Some(id), !.nextTimer = id + 1]

\* main.js lines 1095-1100: clearInterval(loopId), then
\* loopId = setInterval(updateLoop, state.settings.updateRate)
startLoop(a) ==
  LET cleared == IF a.loopId # NULL THEN a.timers \ TimerOf(a, Val(a.loopId)) ELSE a.timers
      id == a.nextTimer
  IN [a EXCEPT !.timers = cleared \cup {[id |-> id, period |-> a.updateRate]},
               !.loopId = Some(id), !.nextTimer = id + 1]

\* main.js lines 305-311: localStorage.setItem('vasey-settings', ...); a throw is caught
persistSettings(a, st) ==
  IF st.available
    THEN [st EXCEPT !.settings = Some([updateRate |-> a.updateRate])]
    ELSE st

\* main.js lines 290-303; the result is the new `state` and the new localStorage
loadSettings(a, st) ==
  IF ~st.available
    THEN [app |-> a, storage |-> st]
    ELSE IF st.settings = NULL
      THEN [app |-> a, storage |-> persistSettings(a, st)]
      ELSE [app |-> [a EXCEPT !.updateRate = Val(st.settings).updateRate], storage |-> st]

\* main.js lines 767-769: computePasses is called with state.observer once a satrec is
\* there; scanned is the observer of the latest call
recalcPasses(a) ==
  IF a.satrec = NULL THEN a ELSE [a EXCEPT !.scanned = Some(a.observer)]

\* faulty variant: the retry is made at once, without the timer
CaughtNoWait(a, message) ==
  LET left == a.retries - 1
  IN IF left > 0
       THEN [a EXCEPT !.retries = left, !.pc = "attempt",
                      !.status = "Retrying orbital data fetch...",
                      !.failures = Append(@, now)]
       ELSE [a EXCEPT !.retries = left, !.pc = "failed",
                      !.status = "Unable to load ISS orbital data. Refresh to try again.",
                      !.feedback = <<message>>,
                      !.failures = Append(@, now)]

\* main.js lines 1168-1177: the catch clause of the retry loop
Caught(a, message) ==
  LET left == a.retries - 1
  IN IF left > 0
       THEN [a EXCEPT !.retries = left, !.pc = "waiting", !.wakeAt = now + RETRY_DELAY_MS,
                      !.status = "Retrying orbital data fetch...",
                      !.failures = Append(@, now)]
       ELSE [a EXCEPT !.retries = left, !.pc = "failed",
                      !.status = "Unable to load ISS orbital data. Refresh to try again.",
                      !.feedback = <<message>>,
                      !.failures = Append(@, now)]

DefaultObserver == [lat |-> 476062, lon |-> -1223321]

\* the page before its script has run; url holds the lat and lon parameters of the
\* address, each as parseFloat reads it (NULL for NaN), or NULL when one is missing
Unloaded(url, loads) ==
  [pc |-> "unloaded", url |-> url, loads |-> loads,
   observer |-> DefaultObserver, locationName |-> "Seattle, WA", satrec |-> NULL,
   retries |-> 0, wakeAt |-> 0, status |-> "", feedback |-> <<>>,
   loopId |-> NULL, timers |-> {}, nextTimer |-> 1,
   attempts |-> <<>>, failures |-> <<>>, scanned |-> NULL, geocoding |-> {},
   abortAt |-> NULL, aborted |-> FALSE, updateRate |-> 1000, rateChanges |-> 0]

\* main.js lines 1102-1114
hydrateFromUrl(a) ==
  IF a.url # NULL /\ Val(a.url).lat # NULL /\ Val(a.url).lon # NULL
    THEN [a EXCEPT !.observer = [lat |-> Val(Val(a.url).lat), lon |-> Val(Val(a.url).lon)]]
    ELSE a

\* main.js lines 1141-1155: the saved location, if it can be read
loadSavedLocation(a) ==
  IF storage.available /\ storage.location # NULL
    THEN [a EXCEPT !.observer = [lat |-> Val(storage.location).lat,
                                 lon |-> Val(storage.location).lon],
                   !.locationName = Val(storage.location).name]
    ELSE a

\* main.js lines 1127-1160: init up to the first attempt
LoadPage ==
  /\ app.pc = "unloaded"
  /\ LET loaded == loadSettings(app, storage)
     IN /\ app' = [loadSavedLocation(hydrateFromUrl(loaded.app)) EXCEPT
                     !.pc = "attempt", !.retries = RETRIES, !.status = "Initializing..."]
        /\ storage' = loaded.storage
  /\ UNCHANGED <<scanVars, call, now, requests, sw, map>>

\* orbit.js lines 17-35: fetchTle up to its return of the cached TLE or to `await fetch`
FetchTleStart ==
  /\ app.pc = "attempt"
  /\ LET cached == ReadTleCache
     IN IF CacheHit(cached, now)
          THEN /\ call' = [fn |-> "fetchTle", args |-> <<>>,
                           result |-> Some(Returns(Val(cached).tle))]
               /\ app' = [app EXCEPT !.pc = "settled", !.attempts = Append(@, now)]
               /\ UNCHANGED requests
          ELSE /\ call' = Call("fetchTle", <<>>)
               /\ app' = [app EXCEPT !.pc = "fetching", !.attempts = Append(@, now),
                                     !.abortAt = Some(now + FETCH_TIMEOUT_MS),
                                     !.aborted = FALSE]
               /\ requests' = requests + 1
  /\ UNCHANGED <<scanVars, now, storage, sw, map>>

\* what `await fetch` gives: a rejection once the controller has aborted, any
\* answer otherwise
Settlements ==
  IF app.aborted
    THEN {[rejected |-> TRUE, ok |-> FALSE, lines |-> <<>>]}
    ELSE TleAnswers(domain)

\* faulty variant: clearTimeout after the await instead of in a finally clause
FetchTleSettleNoFinally ==
  /\ app.pc = "fetching"
  /\ \E a \in Settlements :
       /\ IF a.rejected
            THEN /\ call' = [call EXCEPT !.args = <<a>>,
                                         !.result = Some(Throws("Failed to fetch"))]
                 /\ UNCHANGED storage
            ELSE IF ~a.ok
              THEN /\ call' = [call EXCEPT !.args = <<a>>,
                                           !.result = Some(Throws("Unable to fetch TLE data."))]
                   /\ UNCHANGED storage
              ELSE IF Len(a.lines) < 3
                THEN /\ call' = [call EXCEPT !.args = <<a>>,
                                             !.result = Some(Throws("Invalid TLE response."))]
                     /\ UNCHANGED storage
                ELSE LET tle == Slice(a.lines, 3)
                     IN /\ storage' = WriteTleCache(tle)
                        /\ call' = [call EXCEPT !.args = <<a>>, !.result = Some(Returns(tle))]
       /\ app' = [app EXCEPT !.pc = "settled",
                             !.abortAt = IF a.rejected THEN @ ELSE NULL]
  /\ UNCHANGED <<scanVars, now, requests, sw, map>>

\* orbit.js lines 35-55: the fetch settles; call.args keeps the answer received
FetchTleSettle ==
  /\ app.pc = "fetching"
  /\ \E a \in Settlements :
       IF a.rejected
         THEN /\ call' = [call EXCEPT !.args = <<a>>,
                                      !.result = Some(Throws("Failed to fetch"))]
              /\ UNCHANGED storage
         ELSE IF ~a.ok
           THEN /\ call' = [call EXCEPT !.args = <<a>>,
                                        !.result = Some(Throws("Unable to fetch TLE data."))]
                /\ UNCHANGED storage
           ELSE IF Len(a.lines) < 3
             THEN /\ call' = [call EXCEPT !.args = <<a>>,
                                          !.result = Some(Throws("Invalid TLE response."))]
                  /\ UNCHANGED storage
             ELSE LET tle == Slice(a.lines, 3)
                  IN /\ storage' = WriteTleCache(tle)
                     /\ call' = [call EXCEPT !.args = <<a>>, !.result = Some(Returns(tle))]
  /\ app' = [app EXCEPT !.pc = "settled", !.abortAt = NULL]
  /\ UNCHANGED <<scanVars, now, requests, sw, map>>

\* orbit.js line 31: 15 s after the request the timer runs controller.abort()
AbortTimer ==
  /\ app.pc = "fetching"
  /\ app.abortAt # NULL
  /\ now >= Val(app.abortAt)
  /\ app' = [app EXCEPT !.abortAt = NULL, !.aborted = TRUE]
  /\ UNCHANGED <<scanVars, call, now, storage, requests, sw, map>>

\* main.js lines 1161-1167: fetchTle returned and the rest of the try block ran
InitSucceeds ==
  /\ app.pc = "settled"
  /\ ~Val(call.result).thrown
  /\ app' = [startLoop(recalcPasses([app EXCEPT !.satrec = Some(Val(call.result).value)]))
               EXCEPT !.pc = "running"]
  /\ UNCHANGED <<scanVars, call, now, storage, requests, sw, map>>

\* main.js lines 1161-1177: fetchTle returned, and recalcPasses (before startLoop) or
\* updateLoop (after it) threw while rendering
InitBodyThrows ==
  /\ app.pc = "settled"
  /\ ~Val(call.result).thrown
  /\ \E loopStarted \in BOOLEAN :
       LET a1 == recalcPasses([app EXCEPT !.satrec = Some(Val(call.result).value)])
           a2 == IF loopStarted THEN startLoop(a1) ELSE a1
       IN app' = Caught(a2, "Cannot read properties of null")
  /\ UNCHANGED <<scanVars, call, now, storage, requests, sw, map>>

\* main.js lines 1161-1177: fetchTle threw
InitFetchFailed ==
  /\ app.pc = "settled"
  /\ Val(call.result).thrown
  /\ app' = Caught(app, Val(call.result).value[1])
  /\ UNCHANGED <<scanVars, call, now, storage, requests, sw, map>>

\* main.js line 1172: the retry timer fires
RetryTimer ==
  /\ app.pc = "waiting"
  /\ now >= app.wakeAt
  /\ app' = [app EXCEPT !.pc = "attempt"]
  /\ UNCHANGED <<scanVars, call, now, storage, requests, sw, map>>

\* the instants at which something can happen, besides the deadlines of the timers
Instants(d) ==
  CASE d \in {"location", "loop"} -> {}
    [] d = "fetch" -> {CACHE_TTL_MS}
    [] OTHER -> {RETRY_DELAY_MS, 2 * RETRY_DELAY_MS, CACHE_TTL_MS - 1, CACHE_TTL_MS}

\* the deadline of the pending retry timer
RetryDeadline == IF app.pc = "waiting" THEN {app.wakeAt} ELSE {}

\* the deadline of the pending abort timer, where that timer is followed ("fetch")
AbortDeadline ==
  IF domain = "fetch" /\ app.abortAt # NULL THEN {Val(app.abortAt)} ELSE {}

\* time passes, up to the next instant or to the deadline of a timer, and not
\* beyond the deadline of a pending abort timer
Tick ==
  /\ app.pc # "unloaded"
  /\ \E t \in Instants(domain) \cup RetryDeadline \cup AbortDeadline :
       /\ t > now
       /\ \A deadline \in AbortDeadline : t <= deadline
       /\ now' = t
  /\ UNCHANGED <<scanVars, call, storage, requests, app, sw, map>>

\* "Refresh to try again": the page is loaded anew, localStorage stays
Reload ==
  /\ app.pc # "unloaded"
  /\ app.loads < MaxLoads
  /\ app' = Unloaded(app.url, app.loads + 1)
  /\ call' = NoCall
  /\ UNCHANGED <<scanVars, now, storage, requests, sw, map>>

\* localStorage when the page is first opened: not usable (private browsing), empty,
\* or holding a TLE entry of two lines written by something else
FirstStorages ==
  {[available |-> FALSE, tle |-> NULL, location |-> NULL, settings |-> NULL],
   [available |-> TRUE, tle |-> NULL, location |-> NULL, settings |-> NULL],
   [available |-> TRUE, location |-> NULL, settings |-> NULL,
    tle |-> Some([tle |-> <<"ISS (ZARYA)", "1 25544U A">>, timestamp |-> 0])]}

PageInit(d, url, st) ==
  /\ pc = "idle"
  /\ time = StartMs
  /\ endTime = StartMs
  /\ currentPass = NULL
  /\ maxElevation = INITIAL_MAX_ELEVATION
  /\ peakData = NULL
  /\ passes = <<>>
  /\ env = <<>>
  /\ domain = d
  /\ earlier = <<>>
  /\ call = NoCall
  /\ now = 0
  /\ storage = st
  /\ requests = 0
  /\ app = Unloaded(url, 1)
  /\ sw = NULL
  /\ map = NULL

InitStartup == \E st \in FirstStorages : PageInit("startup", NULL, st)
NextStartup ==
  \/ LoadPage
  \/ FetchTleStart
  \/ FetchTleSettle
  \/ InitSucceeds
  \/ InitBodyThrows
  \/ InitFetchFailed
  \/ RetryTimer
  \/ Tick
  \/ Reload
SpecStartup == InitStartup /\ [][NextStartup]_vars

\* time goes on, timers fire, a fetch settles (it is aborted after 15 s at the
\* latest), and init takes its next step
FairStartup ==
  /\ SpecStartup
  /\ WF_vars(LoadPage)
  /\ WF_vars(FetchTleStart)
  /\ WF_vars(FetchTleSettle)
  /\ WF_vars(InitSucceeds \/ InitBodyThrows \/ InitFetchFailed)
  /\ WF_vars(RetryTimer)
  /\ WF_vars(Tick)

\* fetchTle with its abort timer followed
InitFetch == \E st \in FirstStorages : PageInit("fetch", NULL, st)
NextFetch == NextStartup \/ AbortTimer
SpecFetch == InitFetch /\ [][NextFetch]_vars

----------------------------------------------------------------------------
(* main.js: the update-rate setting and the interval timer *)

\* how many times the update rate is changed after a page load
MaxRateChanges == 2

\* the values of the #setting-rate control (ms)
Rates == {1000, 5000}

\* main.js lines 1073-1077: the change handler of the update-rate setting
RateChange ==
  /\ app.pc # "unloaded"
  /\ app.rateChanges < MaxRateChanges
  /\ \E rate \in Rates :
       LET a1 == [app EXCEPT !.updateRate = rate, !.rateChanges = @ + 1]
       IN /\ storage' = persistSettings(a1, storage)
          /\ app' = startLoop(a1)
  /\ UNCHANGED <<scanVars, call, now, requests, sw, map>>

InitLoop == \E st \in FirstStorages : PageInit("loop", NULL, st)
NextLoop == NextStartup \/ RateChange
SpecLoop == InitLoop /\ [][NextLoop]_vars

----------------------------------------------------------------------------
(* main.js: the location handlers *)

\* main.js lines 778-815; the result is the new `state` and the new localStorage
applyLocation(a, st, lat, lon, name) ==
  IF lat < -900000 \/ lat > 900000 \/ lon < -1800000 \/ lon > 1800000
    THEN [app |-> [a EXCEPT !.feedback = <<"Coordinates out of valid range.">>],
          storage |-> st]
    ELSE LET locationName == IF name # "" THEN name ELSE "Custom location"
             a1 == [a EXCEPT !.observer = [lat |-> lat, lon |-> lon],
                             !.locationName = locationName]
         IN [app |-> [recalcPasses(a1) EXCEPT
                        !.feedback = <<"Location set to", locationName>>],
             storage |-> IF st.available
                           THEN [st EXCEPT !.location =
                                   Some([lat |-> lat, lon |-> lon, name |-> locationName])]
                           ELSE st]

\* the page's script has run: its handlers are bound
Bound == app.pc # "unloaded"

\* what parseFloat reads in the latitude and longitude fields: NULL is NaN
LatInputs == {NULL, Some(-900001), Some(900000)}
LonInputs == {Some(-1800000), Some(1800001)}

\* main.js lines 976-1003, search field empty: manual coordinates
ManualEntry ==
  /\ Bound
  /\ \E lat \in LatInputs, lon \in LonInputs :
       IF lat = NULL \/ lon = NULL
         THEN /\ app' = [app EXCEPT !.feedback = <<"Enter valid coordinates.">>]
              /\ UNCHANGED storage
         ELSE IF Val(lat) < -900000 \/ Val(lat) > 900000
           THEN /\ app' = [app EXCEPT
                             !.feedback = <<"Latitude must be between -90 and 90.">>]
                /\ UNCHANGED storage
           ELSE IF Val(lon) < -1800000 \/ Val(lon) > 1800000
             THEN /\ app' = [app EXCEPT
                               !.feedback = <<"Longitude must be between -180 and 180.">>]
                  /\ UNCHANGED storage
             ELSE LET r == applyLocation(app, storage, Val(lat), Val(lon),
                                         "Custom coordinates")
                  IN app' = r.app /\ storage' = r.storage
  /\ UNCHANGED <<scanVars, call, now, requests, sw, map>>

\* what Nominatim's search answers: NULL when the request fails or nothing is found
SearchResults == {NULL, Some([lat |-> 515074, lon |-> -1278, name |-> "London"])}

\* main.js lines 976-985 and 817-838: the search settles
SearchSettles ==
  /\ Bound
  /\ \E result \in SearchResults :
       IF result = NULL
         THEN /\ app' = [app EXCEPT !.feedback = <<"No results found for that location.">>]
              /\ UNCHANGED storage
         ELSE LET r == applyLocation(app, storage, Val(result).lat, Val(result).lon,
                                     Val(result).name)
              IN app' = r.app /\ storage' = r.storage
  /\ UNCHANGED <<scanVars, call, now, requests, sw, map>>

\* position.coords of the Geolocation API
Positions == {[lat |-> -338688, lon |-> 1512093]}

\* main.js lines 936-939: the position arrives; reverseGeocode is awaited next
UseLocation ==
  /\ Bound
  /\ \E position \in Positions :
       LET r == applyLocation(app, storage, position.lat, position.lon, "Locating...")
       IN /\ app' = [r.app EXCEPT !.geocoding = @ \cup {position}]
          /\ storage' = r.storage
  /\ UNCHANGED <<scanVars, call, now, requests, sw, map>>

\* what reverseGeocode resolves to: NULL for null or a rejection
CityNames == {NULL, Some("Sydney, New South Wales")}

\* main.js lines 940-954: reverseGeocode settles for a position received earlier
ReverseGeocodeSettles ==
  /\ Bound
  /\ \E position \in app.geocoding, cityName \in CityNames :
       IF cityName = NULL
         THEN /\ app' = [app EXCEPT !.geocoding = @ \ {position}]
              /\ UNCHANGED storage
         ELSE /\ app' = [app EXCEPT !.geocoding = @ \ {position},
                                    !.locationName = Val(cityName),
                                    !.feedback = <<"Location set to", Val(cityName)>>]
              /\ storage' =
                   IF storage.available
                     THEN [storage EXCEPT !.location =
                             Some([lat |-> position.lat, lon |-> position.lon,
                                   name |-> Val(cityName)])]
                     ELSE storage
  /\ UNCHANGED <<scanVars, call, now, requests, sw, map>>

\* the lat and lon parameters of the page's address, as parseFloat reads them
UrlParams ==
  {NULL,
   Some([lat |-> Some(515074), lon |-> Some(-1278)]),
   Some([lat |-> NULL, lon |-> Some(0)]),
   Some([lat |-> Some(2000000), lon |-> Some(5000000)])}

InitLocation ==
  \E url \in UrlParams, available \in BOOLEAN :
    PageInit("location", url, [available |-> available, tle |-> NULL, location |-> NULL, settings |-> NULL])
NextLocation ==
  \/ NextStartup
  \/ ManualEntry
  \/ SearchSettles
  \/ UseLocation
  \/ ReverseGeocodeSettles
SpecLocation == InitLocation /\ [][NextLocation]_vars

----------------------------------------------------------------------------
(* sw.js: the service worker.  A URL is kept as its hostname, the folder   *)
(* and the extension of its pathname; a response as its `ok` flag.         *)

Url(hostname, folder, name, ext) ==
  [hostname |-> hostname, folder |-> folder, name |-> name, ext |-> ext]

\* sw.js lines 2-7
STATIC_ASSETS ==
  {Url("app", "/", "", ""), Url("app", "/", "index", "html"),
   Url("app", "/", "iss-icon", "svg"), Url("app", "/", "favicon", "svg")}

\* the GET requests the page makes
Urls ==
  STATIC_ASSETS \cup
    {Url("celestrak.org", "/NORAD/elements/", "gp", "php"),
     Url("nominatim.openstreetmap.org", "/", "search", ""),
     Url("app", "/assets/", "index-4f2a", "js"),
     Url("app", "/", "icon-192", "png")}

\* sw.js lines 32-35
IsApi(url) ==
  url.hostname = "celestrak.org" \/ url.hostname = "nominatim.openstreetmap.org"

\* sw.js lines 49-54
IsStaticAsset(url) ==
  url.folder = "/assets/" \/ url.ext = "svg" \/ url.ext = "png" \/ url.ext = "woff2"

\* caches.match(request): NULL for undefined
CacheMatch(url) == IF url \in DOMAIN sw.cache THEN Some(sw.cache[url]) ELSE NULL

\* cache.put(request, response)
CachePut(cache, url, response) ==
  [u \in DOMAIN cache \cup {url} |-> IF u = url THEN response ELSE cache[u]]

\* the worker script has been fetched and registered, not yet installed
Registered == [active |-> FALSE, cache |-> <<>>, loaded |-> {}, answer |-> NULL]

\* the answer of the worker to a request: `from` is "network", "cache", or "none"
\* when respondWith is given a rejection or undefined
Answer(url, online, from, response) ==
  [url |-> url, online |-> online, from |-> from, response |-> response]

\* the URLs that have been loaded successfully through the worker
Loaded(url, answer) ==
  IF answer.from # "none" /\ Val(answer.response).ok
    THEN sw.loaded \cup {url}
    ELSE sw.loaded

\* sw.js lines 9-25: install and activate; addAll needs every asset from the network
Install ==
  /\ ~sw.active
  /\ sw' = [sw EXCEPT
              !.active = TRUE,
              !.cache = [u \in DOMAIN sw.cache \cup STATIC_ASSETS |->
                           IF u \in STATIC_ASSETS THEN [ok |-> TRUE] ELSE sw.cache[u]]]
  /\ UNCHANGED <<scanVars, call, now, storage, requests, app, map>>

\* sw.js lines 31-46: network first, every response is stored
FetchApi ==
  /\ sw.active
  /\ \E url \in Urls, online \in BOOLEAN, ok \in BOOLEAN :
       /\ IsApi(url)
       /\ LET answer ==
                IF online
                  THEN Answer(url, online, "network", Some([ok |-> ok]))
                  ELSE IF CacheMatch(url) # NULL
                    THEN Answer(url, online, "cache", CacheMatch(url))
                    ELSE Answer(url, online, "none", NULL)
          IN sw' = [sw EXCEPT
                      !.cache = IF online THEN CachePut(@, url, [ok |-> ok]) ELSE @,
                      !.loaded = Loaded(url, answer),
                      !.answer = Some(answer)]
  /\ UNCHANGED <<scanVars, call, now, storage, requests, app, map>>

\* sw.js lines 48-59: cache first, and the network's response is not stored
FetchStaticAsset ==
  /\ sw.active
  /\ \E url \in Urls, online \in BOOLEAN, ok \in BOOLEAN :
       /\ ~IsApi(url)
       /\ IsStaticAsset(url)
       /\ LET answer ==
                IF CacheMatch(url) # NULL
                  THEN Answer(url, online, "cache", CacheMatch(url))
                  ELSE IF online
                    THEN Answer(url, online, "network", Some([ok |-> ok]))
                    ELSE Answer(url, online, "none", NULL)
          IN sw' = [sw EXCEPT !.loaded = Loaded(url, answer), !.answer = Some(answer)]
  /\ UNCHANGED <<scanVars, call, now, storage, requests, app, map>>

\* sw.js lines 61-72: network first, an ok response is stored
FetchOther ==
  /\ sw.active
  /\ \E url \in Urls, online \in BOOLEAN, ok \in BOOLEAN :
       /\ ~IsApi(url)
       /\ ~IsStaticAsset(url)
       /\ LET answer ==
                IF online
                  THEN Answer(url, online, "network", Some([ok |-> ok]))
                  ELSE IF CacheMatch(url) # NULL
                    THEN Answer(url, online, "cache", CacheMatch(url))
                    ELSE Answer(url, online, "none", NULL)
          IN sw' = [sw EXCEPT
                      !.cache = IF online /\ ok THEN CachePut(@, url, [ok |-> ok]) ELSE @,
                      !.loaded = Loaded(url, answer),
                      !.answer = Some(answer)]
  /\ UNCHANGED <<scanVars, call, now, storage, requests, app, map>>

InitWorker ==
  /\ pc = "idle"
  /\ time = StartMs
  /\ endTime = StartMs
  /\ currentPass = NULL
  /\ maxElevation = INITIAL_MAX_ELEVATION
  /\ peakData = NULL
  /\ passes = <<>>
  /\ env = <<>>
  /\ domain = "none"
  /\ earlier = <<>>
  /\ call = NoCall
  /\ now = 0
  /\ storage = NULL
  /\ requests = 0
  /\ app = NULL
  /\ sw = Registered
  /\ map = NULL
NextWorker == Install \/ FetchApi \/ FetchStaticAsset \/ FetchOther
SpecWorker == InitWorker /\ [][NextWorker]_vars

----------------------------------------------------------------------------
(* main.js updateLoop / updateMapAndGlobe and orbit.js computeGroundTrack: *)
(* the ground tracks of the map.  Longitudes and latitudes of track points *)
(* are whole degrees.                                                      *)

\* how many times the interval timer runs updateLoop
MaxUpdates == 3
\* the length of each ground track in minutes (the code's tracks are 90 minutes long)
TrackMinutes == 5
\* Date.now() when the page has finished loading (ms; in a browser it is about
\* 1.7e12, far more than 60000 above the initial lastTrackUpdate of 0)
LoadedAtMs == 100000

\* satellite.propagate(satrec, date), eciToGeodetic included: what the propagator
\* answers for `date`.  `orbit` is the span of dates for which SGP4 gives a position;
\* the sub-satellite point moves east by 2 degrees every 30 s and is at 170 degrees
\* east at date 0.
computePosition(orbit, date) ==
  IF date < orbit.from \/ date > orbit.until
    THEN NULL
    ELSE Some([lat |-> 0, lon |-> ((350 + 2 * (date \div 30000)) % 360) - 180])

\* orbit.js lines 87-98
computeGroundTrack(orbit, startDate, minutes, stepSeconds) ==
  LET totalSteps == (minutes * 60) \div stepSeconds
      dateOf(i) == startDate + i * stepSeconds * 1000
      all == [k \in 1..(totalSteps + 1) |->
                LET position == computePosition(orbit, dateOf(k - 1))
                IN IF position = NULL
                     THEN NULL
                     ELSE Some([lat |-> Val(position).lat, lon |-> Val(position).lon,
                                date |-> dateOf(k - 1)])]
      kept == SelectSeq(all, LAMBDA o : o # NULL)
  IN [k \in 1..Len(kept) |-> Val(kept[k])]

\* the propagator: a position for every date, or for no date later than 3 minutes or
\* than 1 minute after the page load (the orbit model breaks down)
Orbits ==
  {[from |-> 0, until |-> 100000000],
   [from |-> 0, until |-> LoadedAtMs + 3 * 60000],
   [from |-> 0, until |-> LoadedAtMs + 60000]}

\* how long after the previous run the timer runs updateLoop (ms)
UpdateDelays == {1000, 60000, 60001}

\* how the clock advances inside updateMapAndGlobe: before `new Date()` of line 686,
\* before `new Date()` of line 693, before `Date.now()` of line 698 (ms)
ClockSteps == {<<0, 0, 0>>, <<0, 1, 0>>, <<1, 0, 1>>}

\* main.js lines 80-82, and the tracks not yet drawn
MapLoaded ==
  [lastTrackUpdate |-> 0, cachedTrack |-> <<>>, cachedFutureTrack |-> <<>>,
   trackLine |-> <<>>, futureTrackLine |-> <<>>,
   updates |-> 0, refreshes |-> 0, refreshedAt |-> NULL]

\* main.js lines 677-699 at clock reading t, the clock advancing by d inside
updateMapAndGlobe(m, orbit, t, d) ==
  IF t - m.lastTrackUpdate > 60 * 1000
    THEN LET cachedTrack == computeGroundTrack(orbit, t + d[1], TrackMinutes, 30)
             futureStart == t + d[1] + d[2]
             cachedFutureTrack == computeGroundTrack(orbit, futureStart, TrackMinutes, 30)
         IN [m EXCEPT !.cachedTrack = cachedTrack,
                      !.trackLine = segmentTrack(cachedTrack),
                      !.cachedFutureTrack = cachedFutureTrack,
                      !.futureTrackLine = segmentTrack(cachedFutureTrack),
                      !.lastTrackUpdate = t + d[1] + d[2] + d[3],
                      !.refreshes = @ + 1,
                      !.refreshedAt = Some(t)]
    ELSE m

\* main.js lines 747-752: the interval timer runs updateLoop
UpdateLoop ==
  /\ app # NULL /\ app.loopId # NULL /\ app.satrec # NULL
  /\ map.updates < MaxUpdates
  /\ \E delay \in UpdateDelays, orbit \in Orbits, d \in ClockSteps :
       LET t == now + delay
           position == computePosition(orbit, t)
           refreshing == position # NULL /\ t - map.lastTrackUpdate > 60 * 1000
           m == IF position = NULL THEN map ELSE updateMapAndGlobe(map, orbit, t, d)
       IN /\ map' = [m EXCEPT !.updates = @ + 1]
          /\ now' = IF refreshing THEN t + d[1] + d[2] + d[3] ELSE t
  /\ UNCHANGED <<scanVars, call, storage, requests, app, sw>>

\* the page has loaded: init succeeded at its first attempt
InitMap ==
  /\ pc = "idle"
  /\ time = StartMs
  /\ endTime = StartMs
  /\ currentPass = NULL
  /\ maxElevation = INITIAL_MAX_ELEVATION
  /\ peakData = NULL
  /\ passes = <<>>
  /\ env = <<>>
  /\ domain = "map"
  /\ earlier = <<>>
  /\ call = NoCall
  /\ now = LoadedAtMs
  /\ storage = [available |-> TRUE, tle |-> NULL, location |-> NULL, settings |-> NULL]
  /\ requests = 1
  /\ app = [startLoop(recalcPasses([Unloaded(NULL, 1) EXCEPT
                                      !.satrec = Some(Slice(TleA, 3)),
                                      !.retries = RETRIES,
                                      !.attempts = <<LoadedAtMs>>,
                                      !.status = "Initializing..."]))
              EXCEPT !.pc = "running"]
  /\ sw = NULL
  /\ map = MapLoaded
NextMap == UpdateLoop
SpecMap == InitMap /\ [][NextMap]_vars

----------------------------------------------------------------------------
(* What the collaborators answered, read back from env *)

TimeOf(i) == StartMs + (i - 1) * StepMs

ElevationAt(i) == toDegrees(env[i].el)

\* instant i was sampled with the satellite above the horizon
Up(i) == env[i].avail /\ ElevationAt(i) > 0

\* instant i was sampled with the satellite at or below the horizon
Down(i) == env[i].avail /\ ElevationAt(i) <= 0

SetMax(S) == CHOOSE x \in S : \A y \in S : y <= x
SetMin(S) == CHOOSE x \in S : \A y \in S : x <= y

\* i is the first sample of a maximal run of sampled instants above the horizon:
\* the sampled instant before it, if any, was not above the horizon
RunStart(i) ==
  /\ Up(i)
  /\ \A j \in 1..(i - 1) :
       (env[j].avail /\ \A m \in (j + 1)..(i - 1) : ~env[m].avail) => ~Up(j)

RunStarts == {i \in 1..Len(env) : RunStart(i)}

DownAfter(i) == {j \in (i + 1)..Len(env) : Down(j)}

Profile == <<-5, -1, 10, 45, 10, -1, -5>>

SawProfile ==
  /\ Len(env) = Len(Profile)
  /\ \A i \in 1..Len(Profile) : env[i].avail /\ ElevationAt(i) = Profile[i]

----------------------------------------------------------------------------
(* C1: when computePasses has returned, there is exactly one pass per      *)
(* maximal run of sampled instants with elevation > 0, in order; the pass  *)
(* starts at the first sample of its run and ends at the first later       *)
(* sample with elevation <= 0 when there is one.  After the seven samples  *)
(* -5, -1, 10, 45, 10, -1, -5 there is exactly one pass, from the 3rd to   *)
(* the 6th sample, with maxElevation 45 at the 4th.                        *)
C1_OnePassPerRun ==
  /\ pc = "done" =>
       LET starts == RunStarts
       IN /\ Len(passes) = Cardinality(starts)
          /\ \A i \in starts :
               LET k == Cardinality({j \in starts : j <= i})
                   downs == DownAfter(i)
               IN /\ passes[k].start = TimeOf(i)
                  /\ downs # {} => passes[k].end = Some(TimeOf(SetMin(downs)))
  /\ SawProfile =>
       /\ currentPass = NULL
       /\ Len(passes) = 1
       /\ passes[1].maxElevation = 45
       /\ passes[1].peakTime = TimeOf(4)
       /\ passes[1].start = TimeOf(3)
       /\ passes[1].end = Some(TimeOf(6))

C1_Witness ==
  pc = "done" /\ SawProfile /\ Len(passes) = 1

\* a run of a single sample is emitted as a pass
C1_WitnessSingle ==
  /\ pc = "done"
  /\ \E k \in 1..Len(passes) : passes[k].end = Some(passes[k].start + StepMs)

(* C2: every emitted pass has start <= peakTime <= end, whether closed by  *)
(* a sample at or below the horizon or finalized at the window end.        *)
C2_PeakWithinPass ==
  \A k \in 1..Len(passes) :
    /\ passes[k].start <= passes[k].peakTime
    /\ passes[k].peakTime <= Val(passes[k].end)

\* a pass closed by a sample, peak strictly inside, and a pass finalized at the window end
C2_Witness ==
  /\ pc = "done"
  /\ currentPass # NULL
  /\ Len(passes) >= 2
  /\ passes[1].start < passes[1].peakTime
  /\ passes[1].peakTime < Val(passes[1].end)
  /\ Last(passes).start < Last(passes).peakTime

(* C3: for every emitted pass, maxElevation is at least the elevation of   *)
(* every sampled instant in [start, end], and it is the elevation sampled  *)
(* at peakTime, peakAz being the azimuth of that same sample.              *)
C3_MaxElevationIsPeak ==
  \A k \in 1..Len(passes) :
    LET p == passes[k]
        peak == SampleAt(env, p.peakTime)
    IN /\ \A i \in 1..Len(env) :
            (env[i].avail /\ p.start <= TimeOf(i) /\ TimeOf(i) <= Val(p.end))
              => p.maxElevation >= ElevationAt(i)
       /\ peak.avail
       /\ p.maxElevation = toDegrees(peak.el)
       /\ p.peakAz = normalizeAzimuth(peak.az)

\* the peak is neither the first sample nor at the first sample's azimuth
C3_Witness ==
  \E k \in 1..Len(passes) :
    /\ passes[k].peakTime > passes[k].start
    /\ passes[k].peakAz # passes[k].startAz
    /\ passes[k].maxElevation = 45

(* C4: for every emitted pass, visibleSegments are pairwise disjoint,      *)
(* strictly ordered by start, and each lies within the pass's [start, end] *)
C4_SegmentsWithinPass ==
  \A k \in 1..Len(passes) :
    LET p == passes[k]
        segs == p.visibleSegments
    IN /\ \A i \in 1..Len(segs) :
            /\ p.start <= segs[i].start
            /\ segs[i].end # NULL
            /\ segs[i].start <= Val(segs[i].end)
            /\ Val(segs[i].end) <= Val(p.end)
       /\ \A i \in 1..(Len(segs) - 1) :
            /\ segs[i].start < segs[i + 1].start
            /\ Val(segs[i].end) <= segs[i + 1].start

(* C5: no emitted pass contains a visibility segment whose end is null: a  *)
(* segment still open when the pass is finalized is closed at that instant *)
C5_NoOpenSegmentEmitted ==
  \A k \in 1..Len(passes) :
    \A i \in 1..Len(passes[k].visibleSegments) :
      passes[k].visibleSegments[i].end # NULL

\* the segments of the pass the loop is working on, before and after a step
SegmentsBefore ==
  IF currentPass # NULL THEN Val(currentPass).visibleSegments ELSE <<>>

SegmentsAfter ==
  IF currentPass' # NULL
    THEN Val(currentPass').visibleSegments
    ELSE Last(passes').visibleSegments

IsOpenSegment(segs) == segs # <<>> /\ Last(segs).end = NULL

\* this step sampled an instant while a pass was open (opened at, or closed by, this sample included)
SampledInPass ==
  /\ Len(env') = Len(env) + 1
  /\ Last(env').avail
  /\ currentPass # NULL \/ currentPass' # NULL

(* C6: at each sampled instant of an open pass: sunlit and dark with no    *)
(* open segment opens one starting at this instant; not (sunlit and dark)  *)
(* with an open segment closes it at this instant; otherwise the segments  *)
(* are unchanged.  Only the last segment of a pass can be open.            *)
C6_SegmentStep ==
  [][SampledInPass =>
       LET s == Last(env')
           both == isSatSunlit(s.pos, s.sun) /\ toDegrees(s.alt) < DARK_LIMIT_DEG
           before == SegmentsBefore
           after == SegmentsAfter
       IN /\ (both /\ ~IsOpenSegment(before))
               => after = Append(before, [start |-> time, end |-> NULL])
          /\ (~both /\ IsOpenSegment(before))
               => after = [before EXCEPT ![Len(before)].end = Some(time)]
          /\ (both <=> IsOpenSegment(before)) => after = before
          /\ \A i \in 1..(Len(after) - 1) : after[i].end # NULL
    ]_vars

\* a pass with a closed segment followed by an open one
C6_Witness ==
  /\ currentPass # NULL
  /\ Len(Val(currentPass).visibleSegments) = 2
  /\ Val(currentPass).visibleSegments[1].end # NULL
  /\ Val(currentPass).visibleSegments[2].end = NULL

(* C7: for every emitted pass, visible is true iff visibleSegments is not  *)
(* empty.                                                                  *)
C7_VisibleIffSegments ==
  \A k \in 1..Len(passes) :
    passes[k].visible <=> passes[k].visibleSegments # <<>>

\* a visible pass and a pass that is not visible, both emitted
C7_Witness ==
  /\ \E k \in 1..Len(passes) : passes[k].visible
  /\ \E k \in 1..Len(passes) : ~passes[k].visible

(* C8: every pass opened during the scan appears exactly once in the       *)
(* result; a pass still open when the window ends is emitted with end =    *)
(* endTime and the maxElevation and peakTime accumulated so far.           *)
C8_OpenPassEmittedAtWindowEnd ==
  /\ [](pc = "done" =>
          \A i \in RunStarts :
            Cardinality({k \in 1..Len(passes) : passes[k].start = TimeOf(i)}) = 1)
  /\ [][(pc = "loop" /\ pc' = "done" /\ currentPass # NULL) =>
          /\ Len(passes') = Len(passes) + 1
          /\ \A k \in 1..Len(passes) : passes'[k] = passes[k]
          /\ Last(passes').start = Val(currentPass).start
          /\ Last(passes').end = Some(endTime)
          /\ Last(passes').maxElevation = maxElevation
          /\ Last(passes').peakTime = Val(peakData).time
       ]_vars

\* a pass finalized at the window end whose peak is not its first sample
C8_Witness ==
  /\ pc = "done"
  /\ currentPass # NULL
  /\ Last(passes).end = Some(endTime)
  /\ Last(passes).peakTime > Last(passes).start
  /\ Len(passes) = 2

LastSampled == SetMax({i \in 1..Len(env) : env[i].avail})

(* C9: when the window ends with a pass still open, the emitted pass's     *)
(* endAz is the azimuth of the last sampled instant of that pass.          *)
C9_EndAzIsLastAzimuth ==
  (pc = "done" /\ currentPass # NULL) =>
     Last(passes).endAz = Some(normalizeAzimuth(env[LastSampled].az))

(* C10: a step at which propagate returns no position changes nothing but  *)
(* the loop variable: the open pass (or none), maxElevation, the peak, the *)
(* visibility segments and the result sequence are as before.              *)
C10_GapChangesNothing ==
  [][(Len(env') = Len(env) + 1 /\ ~Last(env').avail) =>
        /\ UNCHANGED <<currentPass, maxElevation, peakData, passes, pc>>
        /\ time' = time + StepMs
    ]_vars

\* a gap inside an open pass, and the pass goes on after it
C10_Witness ==
  /\ currentPass # NULL
  /\ Len(env) >= 3
  /\ ~env[Len(env) - 1].avail
  /\ Last(env).avail
  /\ Val(currentPass).start < TimeOf(Len(env) - 1)

\* this step sampled an instant (propagate returned a position)
SampledStep == Len(env') = Len(env) + 1 /\ Last(env').avail

(* C11: elevation exactly 0 is not above the horizon: a sample with        *)
(* elevation 0 opens no pass when none is open and closes the open pass at *)
(* that sample when one is open; a pass is open after a sample only if the *)
(* sample's elevation is > 0.                                              *)
C11_ZeroIsBelowHorizon ==
  [][SampledStep =>
       LET el == toDegrees(Last(env').el)
       IN /\ (el = 0 /\ currentPass = NULL) =>
               (currentPass' = NULL /\ passes' = passes)
          /\ (el = 0 /\ currentPass # NULL) =>
               /\ currentPass' = NULL
               /\ Len(passes') = Len(passes) + 1
               /\ Last(passes').start = Val(currentPass).start
               /\ Last(passes').end = Some(time)
          /\ currentPass' # NULL => el > 0
    ]_vars

\* a first sample at elevation 0 opened nothing, and a later pass was closed by a sample at 0
C11_Witness ==
  /\ Len(env) >= 3
  /\ env[1].avail /\ ElevationAt(1) = 0
  /\ Len(passes) = 1
  /\ passes[1].start = TimeOf(2)
  /\ SampleAt(env, Val(passes[1].end)).avail
  /\ toDegrees(SampleAt(env, Val(passes[1].end)).el) = 0

(* C12: the returned passes are strictly ordered by start.                 *)
C12_StrictlyOrderedByStart ==
  \A k \in 1..(Len(passes) - 1) : passes[k].start < passes[k + 1].start

C12_Witness ==
  pc = "done" /\ Len(passes) >= 3

(* C13: computePasses keeps no state between invocations: an invocation   *)
(* that gets the same answers as an earlier one (same start, same window)  *)
(* returns the same passes, whatever was invoked in between.               *)
C13_SameAnswersSamePasses ==
  pc = "done" =>
    \A i \in 1..Len(earlier) :
      earlier[i].env = env => earlier[i].passes = passes

\* the third invocation repeats the first; the one in between differed and returned other passes
C13_Witness ==
  /\ pc = "done"
  /\ Len(earlier) = 2
  /\ earlier[1].env = env
  /\ earlier[2].passes # passes
  /\ currentPass # NULL
  /\ Len(passes) = 1

\* a call of fn has returned
Returned(fn) == call.fn = fn /\ call.result # NULL

(* C14: scorePass returns an integer in [0, 100] for every input triple,   *)
(* negative elevations and negative durations included.                    *)
C14_ScoreInRange ==
  Returned("scorePass") =>
    (Val(call.result) \in Int /\ 0 <= Val(call.result) /\ Val(call.result) <= 100)

BrightnessLabels == {"Very bright", "Bright", "Moderate", "Dim"}

(* C16: scorePass is monotonic: with the other two arguments fixed, the    *)
(* score does not decrease when maxElevation grows, when durationSeconds   *)
(* grows, or when the sun altitude becomes more negative; and              *)
(* scorePass(20, 200, -2) < scorePass(80, 400, -18).                       *)
C16_ScoreMonotonic ==
  Returned("scorePass") =>
    LET el == call.args[1]
        d == call.args[2]
        alt == call.args[3]
        r == Val(call.result)
    IN /\ \A el2 \in ScoreElevations : el2 >= el => scorePass(el2, d, alt) >= r
       /\ \A d2 \in ScoreDurations : d2 >= d => scorePass(el, d2, alt) >= r
       /\ \A alt2 \in ScoreSunAltitudes : alt2 <= alt => scorePass(el, d, alt2) >= r
       /\ \A el2 \in ScoreElevations, d2 \in ScoreDurations, alt2 \in ScoreSunAltitudes :
            (el2 >= el /\ d2 >= d /\ alt2 <= alt) => scorePass(el2, d2, alt2) >= r
       /\ call.args = <<20, 200, -2>> => r < scorePass(80, 400, -18)

C16_Witness ==
  Returned("scorePass") /\ call.args = <<20, 200, -2>> /\ call.result = Some(21)

\* the three contributions, each times 180, as the formula of the claim states them
ElevationPart180(el) == IF el >= 90 THEN 50 * 180 ELSE 100 * el
DurationPart180(d) == IF d >= 600 THEN 30 * 180 ELSE 9 * d
DarknessPart180(alt) ==
  IF alt >= -6 THEN 0 ELSE IF alt <= -18 THEN 20 * 180 ELSE 300 * (-alt - 6)

(* C17: scorePass = round(min(el/90, 1)*50 + min(d/600, 1)*30 +            *)
(* clamp((-alt - 6)/12, 0, 1)*20): the result r is the integer with        *)
(* r - 1/2 <= sum < r + 1/2; the elevation part is 50 from 90 degrees on,  *)
(* the duration part 30 from 600 s on, the darkness part 0 at sun altitude *)
(* >= -6 and 20 at sun altitude <= -18.                                    *)
C17_ScoreFormula ==
  Returned("scorePass") =>
    LET el == call.args[1]
        d == call.args[2]
        alt == call.args[3]
        r == Val(call.result)
        sum180 == ElevationPart180(el) + DurationPart180(d) + DarknessPart180(alt)
    IN /\ 360 * r - 180 <= 2 * sum180
       /\ 2 * sum180 < 360 * r + 180
       /\ el >= 90 => r = scorePass(90, d, alt)
       /\ d >= 600 => r = scorePass(el, 600, alt)
       /\ alt >= -6 => r = scorePass(el, d, -6)
       /\ alt <= -18 => r = scorePass(el, d, -18)
       /\ call.args = <<90, 0, -6>> => r = 50
       /\ call.args = <<0, 600, -6>> => r = 30
       /\ call.args = <<0, 0, -18>> => r = 20
       /\ call.args = <<90, 600, -18>> => r = 100

\* 20/90*50 + 0 + (1/12)*20 = 12.78 rounds up to 13
C17_Witness ==
  Returned("scorePass") /\ call.args = <<20, 0, -7>> /\ call.result = Some(13)

(* C18: estimateBrightness returns one of the four labels, chosen from     *)
(* c = maxElevation*0.7 + clamp((-alt - 6)/12, 0, 1)*30 by strict          *)
(* thresholds: > 70 "Very bright", else > 50 "Bright", else > 30           *)
(* "Moderate", else "Dim"; (80, -18) is "Very bright", (40, -2) is "Dim".  *)
C18_BrightnessThresholds ==
  Returned("estimateBrightness") =>
    LET el == call.args[1]
        alt == call.args[2]
        r == Val(call.result)
        \* 10 * c
        c10 == 7 * el + (IF alt >= -6 THEN 0 ELSE IF alt <= -18 THEN 300 ELSE 25 * (-alt - 6))
    IN /\ r \in BrightnessLabels
       /\ r = "Very bright" <=> c10 > 700
       /\ r = "Bright" <=> (c10 > 500 /\ c10 <= 700)
       /\ r = "Moderate" <=> (c10 > 300 /\ c10 <= 500)
       /\ r = "Dim" <=> c10 <= 300
       /\ call.args = <<80, -18>> => r = "Very bright"
       /\ call.args = <<40, -2>> => r = "Dim"

\* a composite of exactly 70 is "Bright", not "Very bright"
C18_Witness ==
  Returned("estimateBrightness") /\ call.args = <<100, -6>> /\ call.result = Some("Bright")

\* the length in ms of the first segment of the pass handed to describeVisibility
FirstSegmentClosed == call.args[1].visibleSegments[1].end # NULL
FirstSegmentLength ==
  Val(call.args[1].visibleSegments[1].end) - call.args[1].visibleSegments[1].start

\* the labels of describeVisibility, "most of pass" from a first segment of at least minMs
VisibilityLabel(pass, minMs) ==
  IF ~pass.visible THEN "Not visible (daylight or shadowed)"
  ELSE IF pass.visibleSegments = <<>> THEN "Visible briefly"
  ELSE IF pass.visibleSegments[1].end # NULL
          /\ Val(pass.visibleSegments[1].end) - pass.visibleSegments[1].start >= minMs
         THEN "Visible for most of pass"
         ELSE "Visible in part of pass"

(* C19 as stated: describeVisibility returns "Visible for most of pass"    *)
(* when the first segment is closed and lasts at least 4 minutes, and      *)
(* "Visible in part of pass" for a shorter first segment.                  *)
C19_FourMinutes ==
  Returned("describeVisibility") =>
    Val(call.result) = VisibilityLabel(call.args[1], 240000)

(* C19 as amended: describeVisibility returns "Not visible (daylight or    *)
(* shadowed)" if the pass is not visible; "Visible briefly" if visible     *)
(* with no segment; "Visible for most of pass" if the first segment is     *)
(* closed and its duration rounded to the nearest minute is at least 4,    *)
(* that is at least 3.5 minutes; "Visible in part of pass" otherwise.      *)
C19_RoundedFourMinutes ==
  Returned("describeVisibility") =>
    Val(call.result) = VisibilityLabel(call.args[1], 210000)

\* a first segment of 3 min 40 s is reported as most of the pass
C19_Witness ==
  /\ Returned("describeVisibility")
  /\ call.args[1].visible
  /\ call.args[1].visibleSegments # <<>>
  /\ FirstSegmentClosed
  /\ FirstSegmentLength = 220000
  /\ call.result = Some("Visible for most of pass")

(* C15: every emitted pass has a score in [0, 100] and a brightness that   *)
(* is one of the four labels.                                              *)
C15_PassScoreAndLabel ==
  \A k \in 1..Len(passes) :
    /\ passes[k].score \in 0..100
    /\ passes[k].brightness \in BrightnessLabels

\* a high pass under a dark sky and a low pass in daylight
C15_Witness ==
  /\ \E k \in 1..Len(passes) :
       passes[k].brightness = "Very bright" /\ passes[k].score >= 65
  /\ \E k \in 1..Len(passes) :
       passes[k].brightness = "Dim" /\ passes[k].score <= 10

RECURSIVE Flatten(_)
Flatten(segments) ==
  IF segments = <<>> THEN <<>> ELSE Head(segments) \o Flatten(Tail(segments))

(* C20: concatenating the (lat, lon) pairs of the segments returned by     *)
(* segmentTrack, in order, gives the input sequence of points exactly.     *)
C20_SegmentsRoundTrip ==
  Returned("segmentTrack") =>
    Flatten(Val(call.result)) = [i \in 1..Len(call.args[1]) |-> LatLon(call.args[1][i])]

\* a track cut in three segments by two antimeridian crossings
C20_Witness ==
  /\ Returned("segmentTrack")
  /\ Len(call.args[1]) = 3
  /\ Len(Val(call.result)) = 3
  /\ call.args[1][1].lat # call.args[1][2].lat

\* the index in the input of the first point of segment k of the result
SegmentFirstIndex(segments, k) ==
  1 + Len(Flatten([j \in 1..(k - 1) |-> segments[j]]))

(* C21: segmentTrack splits exactly at antimeridian jumps: a new segment   *)
(* starts at point i iff |lon[i] - lon[i-1]| > 180 (exactly 180 does not   *)
(* split); the number of segments is 1 + the number of such jumps; an      *)
(* input of 0 or 1 points yields a single segment.                         *)
C21_SplitsAtJumps ==
  Returned("segmentTrack") =>
    LET points == call.args[1]
        segments == Val(call.result)
        jumps == {i \in 2..Len(points) :
                    points[i].lon - points[i - 1].lon > 180
                      \/ points[i - 1].lon - points[i].lon > 180}
        firsts == {SegmentFirstIndex(segments, k) : k \in 2..Len(segments)}
    IN /\ Len(segments) = 1 + Cardinality(jumps)
       /\ firsts = jumps
       /\ Len(points) < 2 => Len(segments) = 1

\* a difference of exactly 180 that did not split, followed by a jump that did
C21_Witness ==
  /\ Returned("segmentTrack")
  /\ Len(call.args[1]) = 3
  /\ call.args[1][1].lon = -90
  /\ call.args[1][2].lon = 90
  /\ call.args[1][3].lon = -170
  /\ Len(Val(call.result)) = 2
  /\ Len(Val(call.result)[1]) = 2

\* |a x b|^2, the squared length of the cross product
CrossSq(a, b) ==
  LET cx == a[2] * b[3] - a[3] * b[2]
      cy == a[3] * b[1] - a[1] * b[3]
      cz == a[1] * b[2] - a[2] * b[1]
  IN cx * cx + cy * cy + cz * cz

(* C22: a position whose dot product with the Sun vector is positive is    *)
(* always classified sunlit, whatever its magnitude, positions inside the  *)
(* Earth's radius included.                                                *)
C22_SunwardSideIsSunlit ==
  Returned("isSatSunlit") =>
    (Dot(call.args[1], call.args[2]) > 0 => Val(call.result) = TRUE)

\* a position 100 km from the Earth's centre, on the sunward side, is sunlit
C22_Witness ==
  /\ Returned("isSatSunlit")
  /\ call.args = <<(<<100, 0, 0>>), (<<1, 0, 0>>)>>
  /\ call.result = Some(TRUE)

(* C23: when the dot product is not positive, the satellite is sunlit iff  *)
(* its distance perpendicular to the Sun direction, |sat x sun| / |sun|,   *)
(* strictly exceeds 6371 km; at exactly 6371 km or less it is shadowed.    *)
C23_ShadowCylinder ==
  Returned("isSatSunlit") =>
    LET sat == call.args[1]
        sun == call.args[2]
    IN Dot(sat, sun) <= 0 =>
         (Val(call.result) = TRUE
            <=> CrossSq(sat, sun) > 6371 * 6371 * Dot(sun, sun))

\* behind the Earth at exactly 6371 km from the axis: shadowed
C23_Witness ==
  /\ Returned("isSatSunlit")
  /\ call.args = <<(<<-7000, 6371, 0>>), (<<1, 0, 0>>)>>
  /\ call.result = Some(FALSE)

\* behind the Earth at 6372 km from the axis: sunlit
C23_WitnessClear ==
  /\ Returned("isSatSunlit")
  /\ call.args = <<(<<-7000, 6372, 0>>), (<<1, 0, 0>>)>>
  /\ call.result = Some(TRUE)

\* d is a normalized azimuth and is congruent modulo 360 to the transform's azimuth at instant t
NormalizedFrom(d, t) ==
  /\ 0 <= d
  /\ d < 360
  /\ SampleAt(env, t).avail
  /\ d = toDegrees(SampleAt(env, t).az) % 360

(* C24: every azimuth stored in a pass (startAz, peakAz, endAz) is in      *)
(* [0, 360) for every azimuth the look-angle transform can return (0 to    *)
(* 2 pi), and the elevation the scanner uses is the transform's elevation  *)
(* converted to degrees and nothing else: maxElevation is the converted    *)
(* elevation at peakTime, the converted elevation at start is > 0, and a   *)
(* pass closed by a sample ends where the converted elevation is <= 0.     *)
C24_AzimuthsNormalized ==
  \A k \in 1..Len(passes) :
    LET p == passes[k]
    IN /\ NormalizedFrom(p.startAz, p.start)
       /\ NormalizedFrom(p.peakAz, p.peakTime)
       /\ p.endAz # NULL
       /\ 0 <= Val(p.endAz) /\ Val(p.endAz) < 360
       /\ p.maxElevation = (SampleAt(env, p.peakTime).el * 180) \div PI
       /\ (SampleAt(env, p.start).el * 180) \div PI > 0
       /\ (k < Len(passes) \/ currentPass = NULL \/ pc # "done") =>
            /\ NormalizedFrom(Val(p.endAz), Val(p.end))
            /\ (SampleAt(env, Val(p.end)).el * 180) \div PI <= 0

\* a pass that starts at azimuth 2 pi (stored as 0), peaks at 359 and is closed at 2 pi
C24_Witness ==
  /\ Len(passes) = 1
  /\ currentPass = NULL
  /\ SampleAt(env, passes[1].start).az = 360
  /\ passes[1].startAz = 0
  /\ passes[1].peakAz = 359
  /\ passes[1].maxElevation = 90
  /\ SampleAt(env, Val(passes[1].end)).az = 360
  /\ SampleAt(env, Val(passes[1].end)).el = -90
  /\ passes[1].endAz = Some(0)

\* the 16-point compass rose, clockwise from north; label j is centred on j * 22.5 degrees
Rose ==
  <<"N", "NNE", "NE", "ENE", "E", "ESE", "SE", "SSE",
    "S", "SSW", "SW", "WSW", "W", "WNW", "NW", "NNW">>

\* the labels whose centre is nearest to azimuthQ (two of them on a sector boundary)
NearestLabels(azimuthQ) ==
  {Rose[(j % 16) + 1] : j \in {i \in 0..16 : Abs(azimuthQ - 90 * i) <= 45}}

(* C25: for every azimuth in [0, 360), formatAzimuth contains the label of *)
(* the 16-point compass rose nearest to it: each label covers the 22.5     *)
(* degree sector centred on it, azimuths from 348.75 upward wrap to "N",   *)
(* and formatAzimuth(90) contains "E".                                     *)
C25_NearestCompassLabel ==
  Returned("formatAzimuth") =>
    LET azimuthQ == call.args[1]
        label == Val(call.result).compass
    IN /\ label \in NearestLabels(azimuthQ)
       /\ \A j \in 0..15 :
            (90 * j - 45 <= azimuthQ /\ azimuthQ < 90 * j + 45) => label = Rose[j + 1]
       /\ azimuthQ >= 1395 => label = "N"
       /\ azimuthQ = 360 => label = "E"

\* 348.75 degrees is labelled "N"
C25_Witness ==
  /\ Returned("formatAzimuth")
  /\ call.args[1] = 1395
  /\ Val(call.result).compass = "N"
  /\ Val(call.result).degrees = 349

\* this step is fetchTle's start, or the settling of its fetch
FetchStarted == app.pc = "attempt" /\ app'.pc \in {"settled", "fetching"}
FetchSettled == app.pc = "fetching" /\ app'.pc = "settled"

\* the stored entry is younger than 12 hours and holds 3 lines
FreshEntry ==
  /\ storage.tle # NULL
  /\ now - Val(storage.tle).timestamp < 43200000
  /\ Len(Val(storage.tle).tle) = 3

\* what fetchTle does when called: the cached TLE without a request iff the entry
\* is fresh, a request otherwise; an entry of 12 hours or more is not returned
StartServesFreshEntryOnly ==
  FetchStarted =>
    /\ FreshEntry <=> (call'.result # NULL /\ requests' = requests)
    /\ FreshEntry => call'.result = Some(Returns(Val(storage.tle).tle))
    /\ ~FreshEntry => (call'.result = NULL /\ requests' = requests + 1)
    /\ (storage.tle # NULL /\ now - Val(storage.tle).timestamp >= 43200000)
         => call'.result = NULL
    /\ storage' = storage

(* C26 as stated: fetchTle returns the cached TLE without a network        *)
(* request iff a cache entry exists that is younger than 12 hours and      *)
(* holds 3 lines; otherwise it fetches and, on success, replaces the cache *)
(* entry with the new TLE and the current timestamp; a cached TLE of age   *)
(* 12 hours or more is never returned.                                     *)
C26_CachedTwelveHours ==
  [][/\ StartServesFreshEntryOnly
     /\ (FetchSettled /\ ~Val(call'.result).thrown) =>
          storage'.tle = Some([tle |-> Val(call'.result).value, timestamp |-> now])
    ]_vars

(* C26 as amended: as above, but the fetched TLE replaces the cache entry  *)
(* only if localStorage accepts the write; when localStorage is not usable *)
(* every call goes to the network, the fetched TLE is still returned, and  *)
(* nothing is stored.                                                      *)
C26_CachedWhenStorageUsable ==
  [][/\ StartServesFreshEntryOnly
     /\ (FetchSettled /\ ~Val(call'.result).thrown) =>
          /\ Len(Val(call'.result).value) = 3
          /\ storage.available =>
               storage'.tle = Some([tle |-> Val(call'.result).value, timestamp |-> now])
          /\ ~storage.available => storage' = storage
     /\ (FetchStarted /\ ~storage.available) => requests' = requests + 1
    ]_vars

\* on the second load, 1 ms before the entry is 12 hours old, it is served without a request
C26_Witness ==
  /\ app.loads = 2
  /\ app.pc = "settled"
  /\ now = 43200000 - 1
  /\ requests = 1
  /\ storage.tle = Some([tle |-> TleA, timestamp |-> 0])
  /\ call.result = Some(Returns(TleA))

\* on the second load, at exactly 12 hours, the entry was fetched anew and replaced
C26_WitnessReplaced ==
  /\ app.loads = 2
  /\ app.pc = "settled"
  /\ now = 43200000
  /\ requests = 2
  /\ Len(app.attempts) = 1
  /\ storage.tle = Some([tle |-> Slice(TleB, 3), timestamp |-> 43200000])

C27_WitnessSecondAttempt ==
  /\ app.pc = "running"
  /\ Len(app.attempts) = 2
  /\ Len(app.failures) = 1

(* C28: in every reachable state the observer passed to computePasses has  *)
(* latitude in [-90, 90] and longitude in [-180, 180], whether it came     *)
(* from manual entry, location search, geolocation, the URL parameters or  *)
(* the saved location.                                                     *)
C28_ObserverInRange ==
  app.scanned # NULL =>
    /\ -900000 <= Val(app.scanned).lat /\ Val(app.scanned).lat <= 900000
    /\ -1800000 <= Val(app.scanned).lon /\ Val(app.scanned).lon <= 1800000

(* C29: once a static asset (path under /assets/ or ending in .svg, .png   *)
(* or .woff2) or an API response (celestrak.org, nominatim) has been       *)
(* loaded successfully through the service worker, a later request for the *)
(* same URL made while the network is unavailable is answered from the     *)
(* cache.                                                                  *)
C29_OfflineAnsweredFromCache ==
  [][\A url \in Urls :
       (/\ url \in sw.loaded
        /\ url.hostname \in {"celestrak.org", "nominatim.openstreetmap.org"}
             \/ url.folder = "/assets/" \/ url.ext \in {"svg", "png", "woff2"}
        /\ sw'.answer # sw.answer
        /\ Val(sw'.answer).url = url
        /\ ~Val(sw'.answer).online)
       => Val(sw'.answer).from = "cache"
    ]_vars

\* the sun altitude in degrees that SunCalc gave for instant t
SunAltitudeAt(t) == (SampleAt(env, t).alt * 180) \div PI

\* the brightness label of a composite c, given as 10 * c
LabelOf(c10) ==
  IF c10 > 700 THEN "Very bright"
  ELSE IF c10 > 500 THEN "Bright"
  ELSE IF c10 > 300 THEN "Moderate"
  ELSE "Dim"

(* C30: for every emitted pass, duration is (end - start) in seconds and   *)
(* is >= 0, and score and brightness are those of the pass's final         *)
(* maxElevation, that duration, and the observer's sun altitude at         *)
(* peakTime (not at start or end).                                         *)
C30_ScoredAtPeak ==
  \A k \in 1..Len(passes) :
    LET p == passes[k]
        alt == SunAltitudeAt(p.peakTime)
        sum180 == ElevationPart180(p.maxElevation) + DurationPart180(p.duration)
                    + DarknessPart180(alt)
        dark10 == IF alt >= -6 THEN 0 ELSE IF alt <= -18 THEN 300 ELSE 25 * (-alt - 6)
    IN /\ p.duration * 1000 = Val(p.end) - p.start
       /\ p.duration >= 0
       /\ 360 * p.score - 180 <= 2 * sum180
       /\ 2 * sum180 < 360 * p.score + 180
       /\ p.brightness = LabelOf(7 * p.maxElevation + dark10)

\* a pass that starts and ends in daylight and peaks at 80 degrees under a dark sky:
\* 80/90*50 + 40/600*30 + 20 = 66.4
C30_Witness ==
  \E k \in 1..Len(passes) :
    LET p == passes[k]
    IN /\ p.start < p.peakTime
       /\ p.peakTime < Val(p.end)
       /\ SunAltitudeAt(p.start) = 10
       /\ SunAltitudeAt(Val(p.end)) = 10
       /\ SunAltitudeAt(p.peakTime) = -18
       /\ p.maxElevation = 80
       /\ p.duration = 40
       /\ p.score = 66
       /\ p.brightness = "Very bright"

----------------------------------------------------------------------------
(* C31: computePasses terminates whatever the propagator answers; it       *)
(* samples exactly the instants start + k * 20 s from k = 0 up to the      *)
(* window end, which is itself sampled (k = 0..12960 for the 72 h window), *)
(* in increasing order, and takes no further step after the window end.    *)
C31_SamplesWindowAndTerminates ==
  /\ [](/\ (PASS_WINDOW_HOURS * 3600 * 1000) % StepMs = 0
        /\ (PASS_WINDOW_HOURS * 3600 * 1000) \div StepMs = 12960
        /\ (endTime - StartMs) % StepMs = 0
        /\ time = TimeOf(Len(env) + 1)
        /\ pc = "loop" => time <= endTime + StepMs
        /\ pc = "done" => Len(env) = ((endTime - StartMs) \div StepMs) + 1)
  /\ [][ /\ (pc = "loop" /\ pc' = "loop") =>
             (time <= endTime /\ Len(env') = Len(env) + 1 /\ time' = time + StepMs)
         /\ (pc = "loop" /\ pc' = "done") =>
             (time = endTime + StepMs /\ env' = env)
         /\ (pc = "done") => UNCHANGED vars ]_vars
  /\ <>[](pc = "done")

\* a scan over the whole window, with instants without a position, has returned
C31_Witness ==
  /\ pc = "done"
  /\ domain = "azimuth"
  /\ Len(env) = ((endTime - StartMs) \div StepMs) + 1
  /\ \E i \in 1..Len(env) : ~env[i].avail
  /\ \E i \in 1..Len(env) : env[i].avail
  /\ time > endTime

----------------------------------------------------------------------------
(* C32: after each refresh of the tracks, every point of cachedTrack (the  *)
(* past track drawn on the map) has a time at or before the refresh        *)
(* instant, and every point of cachedFutureTrack a time at or after it.    *)
C32_TracksAroundRefresh ==
  (map # NULL /\ map.refreshedAt # NULL) =>
     /\ \A k \in 1..Len(map.cachedTrack) :
          map.cachedTrack[k].date <= Val(map.refreshedAt)
     /\ \A k \in 1..Len(map.cachedFutureTrack) :
          map.cachedFutureTrack[k].date >= Val(map.refreshedAt)
     /\ map.trackLine = segmentTrack(map.cachedTrack)
     /\ map.futureTrackLine = segmentTrack(map.cachedFutureTrack)

----------------------------------------------------------------------------
\* the answer that the settling fetch received
Received == call'.args[1]

(* C33: when fetchTle fails (the fetch is rejected by a network error or   *)
(* by the abort after 15 s, the response is not ok, or it has fewer than 3 *)
(* lines) it throws and leaves the stored cache entry as it was; the entry *)
(* is written only after an ok response of at least 3 lines; and no abort  *)
(* timer is pending once fetchTle has settled, on any path.                *)
C33_FailureLeavesCache ==
  [][/\ FetchSettled =>
          /\ Val(call'.result).thrown
               <=> (Received.rejected \/ ~Received.ok \/ Len(Received.lines) < 3)
          /\ Val(call'.result).thrown => storage' = storage
          /\ app.aborted => Val(call'.result).thrown
     /\ storage'.tle # storage.tle =>
          /\ FetchSettled
          /\ ~Received.rejected /\ Received.ok /\ Len(Received.lines) >= 3
     /\ app'.pc # "fetching" => app'.abortAt = NULL
    ]_vars

\* the request of the second load was aborted after 15 s; the entry written by the
\* first load, 12 hours old, is still there
C33_Witness ==
  /\ app.loads = 2
  /\ app.pc = "settled"
  /\ app.aborted
  /\ now = CACHE_TTL_MS + FETCH_TIMEOUT_MS
  /\ Val(call.result).thrown
  /\ storage.tle = Some([tle |-> TleA, timestamp |-> 0])

\* a response of two lines was received and nothing was stored
C33_WitnessInvalid ==
  /\ app.pc = "settled"
  /\ call.result = Some(Throws("Invalid TLE response."))
  /\ storage.available
  /\ storage.tle = NULL

----------------------------------------------------------------------------
(* C34: the passes never overlap in time: of two consecutive passes the    *)
(* earlier one ends strictly before the later one starts, at least one     *)
(* sampling step before; the pass under construction starts after the end  *)
(* of every pass already emitted.                                          *)
C34_PassesDoNotOverlap ==
  /\ \A k \in 1..(Len(passes) - 1) :
       /\ passes[k].end # NULL
       /\ Val(passes[k].end) < passes[k + 1].start
       /\ Val(passes[k].end) + StepMs <= passes[k + 1].start
  /\ (pc = "loop" /\ currentPass # NULL /\ passes # <<>>) =>
       Val(Last(passes).end) + StepMs <= Val(currentPass).start

\* two passes one sampling step apart
C34_Witness ==
  /\ pc = "done"
  /\ Len(passes) >= 2
  /\ Val(passes[1].end) + StepMs = passes[2].start
  /\ passes[1].start < Val(passes[1].end)

----------------------------------------------------------------------------
\* at sampled instant t the satellite was above the horizon
AboveHorizonAt(t) ==
  LET s == SampleAt(env, t) IN s.avail /\ toDegrees(s.el) > 0

\* at sampled instant t the satellite was sunlit and the observer's sky dark
VisibleAt(t) ==
  LET s == SampleAt(env, t)
  IN s.avail /\ isSatSunlit(s.pos, s.sun) /\ toDegrees(s.alt) < DARK_LIMIT_DEG

\* the instants sampled from the start of pass p to its end
InstantsOf(p) ==
  {t \in {TimeOf(i) : i \in 1..Len(env)} : p.start <= t /\ t <= Val(p.end)}

(* C35: for every returned pass with visible = true there is a sampled     *)
(* instant of the pass with elevation > 0 at which the satellite was       *)
(* sunlit and the sky dark, and every visibility segment starts at a       *)
(* sample with elevation > 0.                                              *)
C35_VisibleOnlyAboveHorizon ==
  \A k \in 1..Len(passes) :
    LET p == passes[k]
    IN /\ p.visible => \E t \in InstantsOf(p) : AboveHorizonAt(t) /\ VisibleAt(t)
       /\ \A i \in 1..Len(p.visibleSegments) : AboveHorizonAt(p.visibleSegments[i].start)

----------------------------------------------------------------------------
(* C36: describeVisibility never returns "Visible briefly" for a pass      *)
(* returned by computePasses (nor for the pass under construction): a pass *)
(* that is visible always has a recorded segment, so the description is    *)
(* one of the three other texts.                                           *)
C36_NeverVisibleBriefly ==
  /\ \A k \in 1..Len(passes) :
       /\ describeVisibility(passes[k]) # "Visible briefly"
       /\ describeVisibility(passes[k]) \in
            {"Not visible (daylight or shadowed)", "Visible for most of pass",
             "Visible in part of pass"}
       /\ passes[k].visible => describeVisibility(passes[k]) # "Not visible (daylight or shadowed)"
  /\ currentPass # NULL => describeVisibility(Val(currentPass)) # "Visible briefly"

\* the scan has returned a pass described as visible in part and one described as not visible
C36_Witness ==
  /\ pc = "done"
  /\ \E k \in 1..Len(passes) : describeVisibility(passes[k]) = "Visible in part of pass"
  /\ \E k \in 1..Len(passes) :
       describeVisibility(passes[k]) = "Not visible (daylight or shadowed)"

----------------------------------------------------------------------------
C37_WitnessBeforeInit ==
  /\ app.pc = "fetching"
  /\ app.satrec = NULL
  /\ Cardinality(app.timers) = 1

----------------------------------------------------------------------------
(* C38: whenever the page is running and a 'vasey-location' entry is       *)
(* stored, after any interleaving of use-my-location (with the completion  *)
(* of its reverse geocoding), location search and manual entry, the entry  *)
(* has the lat and lon of state.observer and the name state.locationName.  *)
C38_StoredLocationMatchesState ==
  (Bound /\ storage.available /\ storage.location # NULL) =>
     /\ Val(storage.location).lat = app.observer.lat
     /\ Val(storage.location).lon = app.observer.lon
     /\ Val(storage.location).name = app.locationName

====
